---- MODULE Spec2Model ----
(***************************************************************************)
(* A model of the transmission discovery code of chainlink-ocr-checker:    *)
(* the two TransmissionFetcher implementations (the plain one and the      *)
(* "optimized" one), their range planners, the parallel chunk harvest, the *)
(* retry wrapper, the round locator and the streaming Fetch of package     *)
(* intra together with the fetch command that consumes its channel.        *)
(*                                                                         *)
(* Block numbers, round ids and counts are naturals.  The gateway (the     *)
(* chain node behind OCR2AggregatorService.GetTransmissions) holds a fixed *)
(* event log `chain`; one query answers with the events of the asked block *)
(* range in chain order, or with a transport error.                        *)
(***************************************************************************)
EXTENDS Integers, Sequences, FiniteSets, TLC

(***************************************************************************)
(* Program constants.                                                      *)
(***************************************************************************)
defaultBlockInterval == 5000

maxRetries == 3

(***************************************************************************)
(* Arithmetic helpers: the Go code computes ceil(float64(a)/float64(b));   *)
(* for the operands of the model (far below 2^53) that is exact.           *)
(***************************************************************************)
CeilDiv(a, b) == (a + b - 1) \div b

Min(a, b) == IF a < b THEN a ELSE b

Max(a, b) == IF a > b THEN a ELSE b

(***************************************************************************)
(* Range planners.                                                         *)
(***************************************************************************)
\* A chunk end that forgets the clamp to endBlock.
ChunkEndUnclamped(start, endBlock, size) == start + size - 1

\* end := start + size - 1; if end > endBlock { end = endBlock }
ChunkEnd(start, endBlock, size) ==
    IF start + size - 1 > endBlock THEN endBlock ELSE start + size - 1

\* A loop step that leaves one block out between two chunks.
NextChunkStartGap(start, size) == start + size + 1

\* start += chunkSize
NextChunkStart(start, size) == start + size

\* The chunk loop shared by both planners:
\*   for start := startBlock; start <= endBlock; start += size { ... }
RECURSIVE ChunkLoop(_, _, _)
ChunkLoop(start, endBlock, size) ==
    IF start > endBlock
    THEN <<>>
    ELSE <<[StartBlock |-> start, EndBlock |-> ChunkEnd(start, endBlock, size)]>>
         \o ChunkLoop(NextChunkStart(start, size), endBlock, size)

\* A chunk size raised to fit the concurrency and never brought back under the
\* RPC limit.
OptimalChunkSizeUnclamped(totalBlocks, concurrency) ==
    IF CeilDiv(totalBlocks, defaultBlockInterval) > concurrency
    THEN CeilDiv(totalBlocks, concurrency)
    ELSE defaultBlockInterval

\* Chunk size of transmissionFetcherOptimized.splitBlockRangeOptimized.
OptimalChunkSize(totalBlocks, concurrency) ==
    LET optimalChunks == CeilDiv(totalBlocks, defaultBlockInterval)
        raised == IF optimalChunks > concurrency
                  THEN CeilDiv(totalBlocks, concurrency)
                  ELSE defaultBlockInterval
    IN  IF raised > defaultBlockInterval THEN defaultBlockInterval ELSE raised

splitBlockRangeOptimized(startBlock, endBlock, concurrency) ==
    ChunkLoop(startBlock, endBlock,
              OptimalChunkSize(endBlock - startBlock + 1, concurrency))

\* Chunk size of transmissionFetcher.splitBlockRange.
NaiveChunkSize(totalBlocks, concurrency) ==
    IF totalBlocks < concurrency * defaultBlockInterval
    THEN Max(totalBlocks \div concurrency, 1)
    ELSE defaultBlockInterval

splitBlockRange(startBlock, endBlock, concurrency) ==
    ChunkLoop(startBlock, endBlock,
              NaiveChunkSize(endBlock - startBlock + 1, concurrency))


(***************************************************************************)
(* Bounds of the model.                                                    *)
(***************************************************************************)
\* f.concurrency of the fetcher under check (the constructors set 30, the
\* tests 10); capacity of the per-harvest semaphore.
Concurrency == 2

\* Longest event log of the chain.
MaxEvents == 3

\* Fetch calls running at once in the specification of concurrent harvests.
NumCalls == 2

\* maxConcurrency of the streaming fetch (16 in intra/fetch.go, 30 in
\* internal/fetch.go): capacity of cfgSem and of querySem.
QueryConcurrency == 2

(***************************************************************************)
(* State.                                                                  *)
(***************************************************************************)
VARIABLES
    chain,      \* the contract's NewTransmission log, in (block, logIndex) order
    head,       \* the chain's head block number (GetBlockNumber)
    gateway,    \* the failure behaviour of the node: [failFirst, badStart]
    gwCalls,    \* queries the gateway has answered, per block range
    calls,      \* the fetch calls: one record per call
    cache,      \* the optimized fetcher's roundBlockCache: round -> entry
    now,        \* the wall clock, in seconds
    stream,     \* the streaming fetch and the fetch command reading from it
    lookup,     \* the last getFromCache call made on its own, and its answer
    usecase,    \* one Execute call of the fetch use case
    service,    \* one GetTransmissions call of the aggregator service
    watch,      \* one executeWatch call of the monitor
    client,     \* one GetBlockByTimestamp call of the ethereum client
    window,     \* one run of a command that derives a block window from the head
    plan        \* input and output of the planners, checked on their own

\* The application layer above the fetchers.
appVars == <<usecase, service, watch, client, window>>

\* An action of one component of the application layer leaves the others as
\* they are.
AppOnly(name) ==
    /\ IF name = "usecase" THEN TRUE ELSE UNCHANGED usecase
    /\ IF name = "service" THEN TRUE ELSE UNCHANGED service
    /\ IF name = "watch" THEN TRUE ELSE UNCHANGED watch
    /\ IF name = "client" THEN TRUE ELSE UNCHANGED client
    /\ IF name = "window" THEN TRUE ELSE UNCHANGED window

\* Everything below the application layer.
engineVars == <<chain, head, gateway, gwCalls, calls, cache, now, stream, plan,
                lookup>>

\* The components that stand beside the fetchers.
sideVars == <<lookup, appVars>>

vars == <<chain, head, gateway, gwCalls, calls, cache, now, stream, plan, sideVars>>

\* What the actions of a fetch call never write.
fixedVars == <<chain, head, gateway, now, stream, plan, sideVars>>

Calls == 1..NumCalls

(***************************************************************************)
(* Transmissions.                                                          *)
(***************************************************************************)
\* roundID := tx.Epoch<<8 | uint32(tx.Round); epochs of the model stay below
\* 2^24, where the shift loses nothing.
RoundIdOf(tx) == tx.Epoch * 256 + tx.Round

InBlocks(tx, startBlock, endBlock) ==
    tx.BlockNumber >= startBlock /\ tx.BlockNumber <= endBlock

\* What FilterNewTransmission iterates for [startBlock, endBlock]: the events of
\* the range in the node's log order.
GetTransmissions(startBlock, endBlock) ==
    SelectSeq(chain, LAMBDA tx : InBlocks(tx, startBlock, endBlock))

RECURSIVE Concat(_)
Concat(ss) == IF ss = <<>> THEN <<>> ELSE Head(ss) \o Concat(Tail(ss))

\* sort.Slice on the short slices of the model is Go's insertion sort, which
\* keeps equal keys in their order: element i goes to the place given by the
\* number of elements that sort before it.
StableSortByKey(s, key) ==
    LET n == Len(s)
        Rank(i) == Cardinality({j \in 1..n :
                       key[j] < key[i] \/ (key[j] = key[i] /\ j < i)}) + 1
    IN  [p \in 1..n |-> s[CHOOSE i \in 1..n : Rank(i) = p]]

SeqToSet(s) == {s[i] : i \in DOMAIN s}

(***************************************************************************)
(* The gateway: a query of a range fails with a transport error while the  *)
(* range has been asked at most failFirst times, and always when the range *)
(* starts at badStart; otherwise it answers.                               *)
(***************************************************************************)
AskedIn(g, startBlock, endBlock) ==
    IF <<startBlock, endBlock>> \in DOMAIN g
    THEN g[<<startBlock, endBlock>>] ELSE 0

FailsIn(g, startBlock, endBlock) ==
    \/ startBlock = gateway.badStart
    \/ AskedIn(g, startBlock, endBlock) < gateway.failFirst

\* The count of a range stops at maxRetries: no failFirst is larger.
CountIn(g, startBlock, endBlock) ==
    (<<startBlock, endBlock>> :>
        Min(AskedIn(g, startBlock, endBlock) + 1, maxRetries)) @@ g

GatewayFails(startBlock, endBlock) == FailsIn(gwCalls, startBlock, endBlock)

CountQuery(startBlock, endBlock) == CountIn(gwCalls, startBlock, endBlock)


(***************************************************************************)
(* Fetch calls.  A call record holds the arguments, the position of the    *)
(* calling goroutine (pc), the context's cancellation flag, the state of   *)
(* the retry loop, and the state of one fetchTransmissionsInRange: the     *)
(* chunks, one goroutine per chunk (tasks), and the two buffered channels. *)
(* An error is the chain of wrapped messages, outermost first; <<>> is nil.*)
(***************************************************************************)
NoCall ==
    [op |-> "none", variant |-> "naive", a |-> 0, b |-> 0, pc |-> "off",
     cancelled |-> FALSE, cancelledAfterRpc |-> FALSE,
     attempt |-> 0, lastErr |-> <<>>, lo |-> 0, hi |-> 0,
     chunks |-> <<>>, tasks |-> <<>>, resultsChan |-> <<>>, errorsChan |-> <<>>,
     err |-> <<>>, hasResult |-> FALSE, result |-> <<>>,
     startRound |-> 0, endRound |-> 0,
     loc |-> [phase |-> "off", targetRound |-> 0, isStartRound |-> FALSE,
              currentBlock |-> 0, left |-> 0, right |-> 0, resultBlock |-> 0,
              began |-> 0, issued |-> FALSE],
     startBlock |-> 0, located |-> <<>>,
     attempts |-> 0,
     rpcIssued |-> FALSE, lateRpc |-> FALSE]

NewCall(op, variant, a, b) ==
    [NoCall EXCEPT !.op = op, !.variant = variant, !.a = a, !.b = b,
                   !.pc = "start"]

ErrCtx == <<"context canceled">>

ErrInvalidInput == <<"invalid input">>

ErrTransport == <<"transport">>

\* fmt.Errorf("failed to fetch chunk %d-%d: %w", start, end, err)
ErrChunk(e) == <<"failed to fetch chunk">> \o e

\* fmt.Errorf("failed after %d attempts: %w", maxRetries, lastErr)
ErrExhausted(e) == <<"failed after 3 attempts">> \o e

Planned(c) ==
    IF c.variant = "optimized"
    THEN splitBlockRangeOptimized(c.lo, c.hi, Concurrency)
    ELSE splitBlockRange(c.lo, c.hi, Concurrency)

\* Entry of fetchTransmissionsInRange: split, make the channels and the
\* semaphore, start one goroutine per chunk.
Spawn(c) ==
    LET chunks == Planned(c)
    IN  [c EXCEPT !.pc = "wait",
                  !.attempts = @ + 1,
                  !.chunks = chunks,
                  !.tasks = [i \in 1..Len(chunks) |-> "spawned"],
                  !.resultsChan = <<>>,
                  !.errorsChan = <<>>]

InFlightStates == {"inflightOk", "inflightFail", "inflightCtx"}

InFlightTasks(c) == {i \in DOMAIN c.tasks : c.tasks[i] \in InFlightStates}

\* Goroutines holding a slot of the call's semaphore.
SemHolders(c) ==
    {i \in DOMAIN c.tasks : c.tasks[i] \in {"ready"} \cup InFlightStates}

\* A semaphore that never blocks.
SemAlwaysFree(c) == TRUE

\* sem := make(chan struct{}, f.concurrency); sem <- struct{}{} goes through
\* while fewer than f.concurrency goroutines hold a slot.
SemFree(c) == Cardinality(SemHolders(c)) < Concurrency

Return(c, err, hasResult, result, startRound, endRound) ==
    [c EXCEPT !.pc = "returned", !.err = err, !.hasResult = hasResult,
              !.result = result, !.startRound = startRound,
              !.endRound = endRound]

ReturnErr(c, err) == Return(c, err, FALSE, <<>>, 0, 0)

\* The ghost bookkeeping of one gateway call issued by call record c.
Issued(c) ==
    [c EXCEPT !.rpcIssued = TRUE,
              !.lateRpc = @ \/ c.cancelledAfterRpc]

(***************************************************************************)
(* FetchByBlocks, both fetchers: the range check, then the harvest.        *)
(***************************************************************************)
InvalidRangeOffByOne(start, end) == start > end + 1

\* The first statement of FetchByRounds and FetchByBlocks, in both fetchers:
\* if startRound > endRound / if startBlock > endBlock.
InvalidRange(start, end) == start > end

FetchByBlocks(h) ==
    LET c == calls[h]
    IN  /\ c.pc = "start"
        /\ c.op = "blocks"
        /\ calls' = [calls EXCEPT ![h] =
              IF InvalidRange(c.a, c.b)
              THEN ReturnErr(c, ErrInvalidInput)
              ELSE Spawn([c EXCEPT !.lo = c.a, !.hi = c.b])]
        /\ UNCHANGED <<fixedVars, gwCalls, cache>>

(***************************************************************************)
(* One chunk goroutine.                                                    *)
(***************************************************************************)
\* Acquire a slot, then look at the context.  The optimized fetcher selects
\* between the slot and ctx.Done(); the plain fetcher only waits for the slot.
ChunkTaskAcquire(h, i) ==
    LET c == calls[h]
    IN  /\ c.pc = "wait"
        /\ i \in DOMAIN c.tasks
        /\ c.tasks[i] = "spawned"
        /\ \/ SemFree(c)
           \/ c.variant = "optimized" /\ c.cancelled
        /\ calls' = [calls EXCEPT ![h] =
              IF c.cancelled
              THEN [c EXCEPT !.tasks[i] = "term",
                             !.errorsChan = Append(@, ErrCtx)]
              ELSE [c EXCEPT !.tasks[i] = "ready"]]
        /\ UNCHANGED <<fixedVars, gwCalls, cache>>

\* f.aggregatorService.GetTransmissions(ctx, contractAddress, start, end) is
\* called: the query is now in flight.  A query issued on a cancelled context
\* fails with the context's error; otherwise the gateway's policy decides.
ChunkTaskCall(h, i) ==
    LET c == calls[h]
        ch == c.chunks[i]
    IN  /\ c.pc = "wait"
        /\ i \in DOMAIN c.tasks
        /\ c.tasks[i] = "ready"
        /\ calls' = [calls EXCEPT ![h] =
              [Issued(c) EXCEPT !.tasks[i] =
                  IF c.cancelled THEN "inflightCtx"
                  ELSE IF GatewayFails(ch.StartBlock, ch.EndBlock)
                       THEN "inflightFail" ELSE "inflightOk"]]
        /\ gwCalls' = CountQuery(ch.StartBlock, ch.EndBlock)
        /\ UNCHANGED <<fixedVars, cache>>

\* The error a chunk goroutine sends for a failed query.
ChunkError(c, e) == IF c.variant = "optimized" THEN ErrChunk(e) ELSE e

\* The query returns; the goroutine sends on one of the channels, releases
\* its slot and ends.
ChunkTaskReturn(h, i) ==
    LET c == calls[h]
        ch == c.chunks[i]
    IN  /\ c.pc = "wait"
        /\ i \in DOMAIN c.tasks
        /\ c.tasks[i] \in InFlightStates
        /\ calls' = [calls EXCEPT ![h] =
              IF c.tasks[i] # "inflightOk"
              THEN [c EXCEPT !.tasks[i] = "term",
                             !.errorsChan = Append(@, ChunkError(c,
                                 IF c.tasks[i] = "inflightCtx"
                                 THEN ErrCtx ELSE ErrTransport))]
              ELSE [c EXCEPT !.tasks[i] = "term",
                             !.resultsChan = Append(@,
                                 [chunkIndex |-> i,
                                  transmissions |->
                                      GetTransmissions(ch.StartBlock, ch.EndBlock)])]]
        /\ UNCHANGED <<fixedVars, gwCalls, cache>>


(***************************************************************************)
(* The end of fetchTransmissionsInRange and what its callers do with it.   *)
(***************************************************************************)
chunkIndexKeys(results) == [k \in DOMAIN results |-> results[k].chunkIndex]

\* A merge that keeps the order in which the chunk results arrived.
MergeArrivalOrder(results) ==
    Concat([k \in DOMAIN results |-> results[k].transmissions])

\* Optimized fetcher: sort.Slice(results, by chunkIndex), then append in order.
MergeByChunkIndex(results) ==
    MergeArrivalOrder(StableSortByKey(results, chunkIndexKeys(results)))

\* Plain fetcher: for transmissions := range resultsChan { append }.
MergeNaive(results) == MergeArrivalOrder(results)

\* for err := range errorsChan { if err != nil { return nil, err } }
HarvestError(c) == IF c.errorsChan = <<>> THEN <<>> ELSE Head(c.errorsChan)

HarvestResult(c) ==
    IF c.variant = "optimized"
    THEN MergeByChunkIndex(c.resultsChan)
    ELSE MergeNaive(c.resultsChan)

\* A round filter that forgets the upper end.
InRoundRangeNoUpper(roundID, startRound, endRound) == roundID >= startRound

\* if roundID >= startRound && roundID <= endRound
InRoundRange(roundID, startRound, endRound) ==
    roundID >= startRound /\ roundID <= endRound

FilterByRounds(txs, startRound, endRound) ==
    SelectSeq(txs, LAMBDA tx : InRoundRange(RoundIdOf(tx), startRound, endRound))

blockKeys(txs) == [k \in DOMAIN txs |-> txs[k].BlockNumber]

\* sort.Slice(transmissions, by BlockNumber): optimized FetchByBlocks only.
SortByBlockNumber(txs) == StableSortByKey(txs, blockKeys(txs))

FirstRound(txs) == IF txs = <<>> THEN 0 ELSE RoundIdOf(txs[1])

LastRound(txs) == IF txs = <<>> THEN 0 ELSE RoundIdOf(txs[Len(txs)])

\* What FetchByBlocks / FetchByRounds return once the harvest delivered txs.
Deliver(c, txs) ==
    IF c.op = "rounds"
    THEN Return(c, <<>>, TRUE, FilterByRounds(txs, c.a, c.b), c.a, c.b)
    ELSE LET sorted == IF c.variant = "optimized"
                       THEN SortByBlockNumber(txs) ELSE txs
         IN  Return(c, <<>>, TRUE, sorted, FirstRound(sorted), LastRound(sorted))

AfterFailedAttemptOneMore(c, err) ==
    IF c.attempt + 1 <= maxRetries
    THEN [c EXCEPT !.pc = "backoff", !.attempt = @ + 1, !.lastErr = err]
    ELSE ReturnErr([c EXCEPT !.attempt = @ + 1, !.lastErr = err],
                   ErrExhausted(err))

\* fetchTransmissionsInRangeWithRetry after a failed attempt.
AfterFailedAttempt(c, err) ==
    IF c.attempt + 1 < maxRetries
    THEN [c EXCEPT !.pc = "backoff", !.attempt = @ + 1, !.lastErr = err]
    ELSE ReturnErr([c EXCEPT !.attempt = @ + 1, !.lastErr = err],
                   ErrExhausted(err))

JoinedOnFirstError(c) ==
    \/ c.errorsChan # <<>>
    \/ \A i \in DOMAIN c.tasks : c.tasks[i] = "term"

\* wg.Wait() is over: every chunk goroutine has run its deferred wg.Done().
Joined(c) == \A i \in DOMAIN c.tasks : c.tasks[i] = "term"

\* wg.Wait() returns: every chunk goroutine has ended.  The channels are
\* closed and drained, and the caller goes on to its return or to a retry.
HarvestJoin(h) ==
    LET c == calls[h]
        err == HarvestError(c)
    IN  /\ c.pc = "wait"
        /\ Joined(c)
        /\ calls' = [calls EXCEPT ![h] =
              IF err = <<>>
              THEN Deliver(c, HarvestResult(c))
              ELSE IF c.variant = "optimized"
                   THEN AfterFailedAttempt(c, err)
                   ELSE ReturnErr(c, err)]
        /\ UNCHANGED <<fixedVars, gwCalls, cache>>

\* The retry loop's select { case <-time.After(delay): case <-ctx.Done(): }.
RetryBackoff(h) ==
    LET c == calls[h]
    IN  /\ c.pc = "backoff"
        /\ \/ calls' = [calls EXCEPT ![h] = Spawn(c)]
           \/ /\ c.cancelled
              /\ calls' = [calls EXCEPT ![h] = ReturnErr(c, ErrCtx)]
        /\ UNCHANGED <<fixedVars, gwCalls, cache>>

\* The caller cancels the context of a running call.
Cancel(h) ==
    LET c == calls[h]
    IN  /\ c.pc \notin {"off", "returned"}
        /\ ~c.cancelled
        /\ calls' = [calls EXCEPT ![h] =
              [c EXCEPT !.cancelled = TRUE, !.cancelledAfterRpc = c.rpcIssued]]
        /\ UNCHANGED <<fixedVars, gwCalls, cache>>


(***************************************************************************)
(* FetchByRounds and the round locator of the optimized fetcher.           *)
(***************************************************************************)
\* Block numbers are uint64 in the code.  The model computes them modulo
\* UintModulus, a power of two that TLC's integers can hold: sums and
\* differences wrap around it the way the code's wrap around 2^64.
UintModulus == 2 ^ 30

U64(x) == x % UintModulus

\* int64(x / y) for y > 0: the conversion truncates toward zero.
TruncDiv(x, y) == IF x >= 0 THEN x \div y ELSE -((-x) \div y)

\* cacheExpiration = 5 * time.Minute, in seconds.
cacheExpiration == 300

\* if len(f.cache.entries) > 1000 { f.cleanupCache() }
cacheCleanupSize == 1000

\* margin := uint64(100000)
margin == 100000

\* searchEnd := mid + 1000
searchWindow == 1000

\* searchEnd = searchStart + 100
retryWindow == 100

\* sampleSize := uint64(10000)
sampleSize == 10000

getFromCache(key) ==
    IF key \notin DOMAIN cache THEN 0
    ELSE IF now - cache[key].timestamp > cacheExpiration THEN 0
    ELSE cache[key].blockNumber

cleanupCache(entries) ==
    [k \in {e \in DOMAIN entries :
               ~(now - entries[e].timestamp > cacheExpiration)} |-> entries[k]]

putToCache(key, blockNumber) ==
    LET entries == (key :> [blockNumber |-> blockNumber, timestamp |-> now])
                   @@ cache
    IN  IF Cardinality(DOMAIN entries) > cacheCleanupSize
        THEN cleanupCache(entries) ELSE entries

(***************************************************************************)
(* The fetch use case: fetchTransmissionsUseCase.Execute.  The fetcher and *)
(* the repository are the interfaces it is built with; their answers are   *)
(* inputs.  Rounds are uint32, kept modulo UintModulus.                    *)
(***************************************************************************)
batchSize == 100

maxRoundRange == 10000

ZeroAddress == 0

NoError == <<>>

NilResult == [nil |-> TRUE, StartRound |-> 0, EndRound |-> 0, Transmissions |-> <<>>]

IdleUseCase ==
    [pc |-> "off",
     params |-> [ContractAddress |-> ZeroAddress, StartRound |-> 0, EndRound |-> 0],
     hasRepository |-> FALSE,
     saveFailsAt |-> 0,          \* the SaveBatch call that fails (0: none)
     fetcherCalls |-> <<>>,      \* the FetchByRounds calls made
     fetched |-> [ok |-> FALSE, result |-> NilResult, err |-> NoError],
     i |-> 0,
     repositoryCalls |-> <<>>,   \* the SaveBatch calls made, as <<i, end>>
     warned |-> FALSE,
     result |-> NilResult,
     err |-> NoError]

FieldErrorsNoRangeLimit(params) ==
    (IF params.ContractAddress = ZeroAddress
     THEN {<<"contract_address", "contract address is required">>} ELSE {})
    \cup (IF params.StartRound > params.EndRound
          THEN {<<"rounds", "invalid range">>} ELSE {})

\* validateParams: the field errors it adds.
FieldErrors(params) ==
    (IF params.ContractAddress = ZeroAddress
     THEN {<<"contract_address", "contract address is required">>} ELSE {})
    \cup (IF params.StartRound > params.EndRound
          THEN {<<"rounds", "invalid range">>} ELSE {})
    \cup (IF (params.EndRound - params.StartRound) % UintModulus > maxRoundRange
          THEN {<<"rounds", "round range too large (max 10000)">>} ELSE {})

\* validateParams: a ValidationError if any field error was added, else nil.
validateParams(params) ==
    IF FieldErrors(params) # {}
    THEN [kind |-> "ValidationError", fields |-> FieldErrors(params)]
    ELSE NoError

UseCaseReturn(u, result, err) ==
    [u EXCEPT !.pc = "returned", !.result = result, !.err = err]

\* Execute up to the call of the fetcher.
Execute ==
    /\ usecase.pc = "start"
    /\ usecase' =
          IF validateParams(usecase.params) # NoError
          THEN UseCaseReturn(usecase, NilResult, validateParams(usecase.params))
          ELSE [usecase EXCEPT !.pc = "fetch",
                               !.fetcherCalls = Append(@, usecase.params)]
    /\ UNCHANGED engineVars /\ AppOnly("usecase")

SaveFailedPropagates(u, e) ==
    UseCaseReturn(u, NilResult, e)

\* saveTransmissions returned an error: a warning, and the result as fetched.
SaveFailed(u, e) ==
    UseCaseReturn([u EXCEPT !.warned = TRUE], u.fetched.result, NoError)

\* uc.transmissionFetcher.FetchByRounds returns (result, err); Execute goes on
\* to the save or returns.
FetcherReturn(ok, result, e) ==
    /\ usecase.pc = "fetch"
    /\ LET u == [usecase EXCEPT !.fetched =
                    IF ok THEN [ok |-> TRUE, result |-> result, err |-> NoError]
                    ELSE [ok |-> FALSE, result |-> NilResult, err |-> e]]
       IN  usecase' =
             IF ~ok THEN UseCaseReturn(u, NilResult, e)
             ELSE IF u.hasRepository /\ Len(result.Transmissions) > 0
                  THEN [u EXCEPT !.pc = "save", !.i = 0]
                  ELSE UseCaseReturn(u, result, NoError)
    /\ UNCHANGED engineVars /\ AppOnly("usecase")

ErrSaveBatch(i, end) == <<"failed to save batch", i, end>>

\* One turn of the loop of saveTransmissions: a SaveBatch call and what
\* follows it, up to the next SaveBatch call or the return of Execute.
SaveBatch ==
    /\ usecase.pc = "save"
    /\ LET transmissions == usecase.fetched.result.Transmissions
           end == Min(usecase.i + batchSize, Len(transmissions))
           u == [usecase EXCEPT !.repositoryCalls = Append(@, <<usecase.i, end>>)]
       IN  usecase' =
             IF Len(u.repositoryCalls) = u.saveFailsAt
             THEN SaveFailed(u, ErrSaveBatch(usecase.i, end))
             ELSE IF usecase.i + batchSize < Len(transmissions)
                  THEN [u EXCEPT !.i = usecase.i + batchSize]
                  ELSE UseCaseReturn(u, u.fetched.result, NoError)
    /\ UNCHANGED engineVars /\ AppOnly("usecase")

(***************************************************************************)
(* The aggregator service: ocr2AggregatorService.GetTransmissions turning  *)
(* the NewTransmission events of a range into entities.Transmission.  The  *)
(* contract's ConfigSet history gives the roster at each block.            *)
(***************************************************************************)
unknownObserver == 255

byteRange == 256

IdleService ==
    [pc |-> "off",
     configLog |-> <<>>,         \* ConfigSet events: [BlockNumber, Transmitters]
     events |-> <<>>,            \* NewTransmission events: [BlockNumber, Transmitter]
     k |-> 0,                    \* events the iterator has handed out
     transmissions |-> <<>>,
     err |-> <<>>]

\* aggregator.GetTransmitters at a block: the roster of the last ConfigSet at
\* or before it.
TransmittersAt(configLog, blockNumber) ==
    LET before == SelectSeq(configLog, LAMBDA ev : ev.BlockNumber <= blockNumber)
    IN  IF before = <<>> THEN <<>> ELSE before[Len(before)].Transmitters

\* getObserverIndex on a config that was read: [index, found].
getObserverIndex(transmitters, transmitterAddr) ==
    LET hits == {i \in DOMAIN transmitters : transmitters[i] = transmitterAddr}
    IN  IF hits = {} THEN [index |-> 0, found |-> FALSE]
        ELSE [index |-> (CHOOSE i \in hits : \A j \in hits : i <= j) - 1,
              found |-> TRUE]

\* TransmitterIndex: uint8(event.Transmitter.Big().Uint64() % 256).
TransmitterIndexOf(event) == event.Transmitter % byteRange

ErrBlockByNumber(blockNumber) == <<"GetTransmissions.BlockByNumber", blockNumber>>

\* One turn of the loop over the iterator in GetTransmissions: reading the
\* event's block answers (blockOk) or ends the call with an error; the config
\* read at the event's block answers (configOk) or fails.
NextTransmission(blockOk, configOk) ==
    /\ service.pc = "iterate"
    /\ service.k < Len(service.events)
    /\ LET event == service.events[service.k + 1]
           transmitters == TransmittersAt(service.configLog, event.BlockNumber)
           observer == getObserverIndex(transmitters, event.Transmitter)
       IN  service' =
             IF ~blockOk
             THEN [service EXCEPT !.pc = "returned", !.k = @ + 1,
                                  !.transmissions = <<>>,
                                  !.err = ErrBlockByNumber(event.BlockNumber)]
             ELSE [service EXCEPT
             !.k = @ + 1,
             !.transmissions = Append(@,
                [TransmitterIndex |-> TransmitterIndexOf(event),
                 TransmitterAddress |-> event.Transmitter,
                 ObserverIndex |-> IF configOk /\ observer.found
                                   THEN observer.index ELSE unknownObserver,
                 BlockNumber |-> event.BlockNumber])]
    /\ UNCHANGED engineVars /\ AppOnly("service")

\* iter.Next() is false: return transmissions, nil.
ReturnTransmissions ==
    /\ service.pc = "iterate"
    /\ service.k = Len(service.events)
    /\ service' = [service EXCEPT !.pc = "returned"]
    /\ UNCHANGED engineVars /\ AppOnly("service")

(***************************************************************************)
(* The monitor's watch: executeWatch converts its parameters and runs      *)
(* watchTransmittersUseCase.Execute, which decides a status for each job   *)
(* of the transmitter.  Time is counted in hours.                          *)
(***************************************************************************)
hoursPerDay == 24

maxRoundsToCheck == 100

JobStatusFound == "Found"
JobStatusStale == "Stale"
JobStatusMissing == "Missing"
JobStatusNoActive == "No Active"
JobStatusError == "Error"

EmptySummary ==
    [TotalJobs |-> 0, FoundJobs |-> 0, StaleJobs |-> 0, MissingJobs |-> 0,
     NoActiveJobs |-> 0, ErrorJobs |-> 0]

IdleWatch ==
    [pc |-> "off",
     params |-> [Transmitter |-> ZeroAddress, RoundsToCheck |-> 0,
                 StaleThreshold |-> 0],
     jobs |-> <<>>,              \* what the job repository holds for the transmitter
     now |-> 0,                  \* time.Now() at the call
     DaysToIgnore |-> 0,
     cutoffTime |-> 0,
     k |-> 0,                    \* jobs checked
     latestRoundCalls |-> <<>>,  \* the jobs GetLatestRound was called for
     fetcherCalls |-> <<>>,
     statuses |-> <<>>,
     summary |-> EmptySummary,
     hasResult |-> FALSE,
     err |-> <<>>]

\* int(params.StaleThreshold.Hours() / 24): the conversion truncates.
DaysToIgnore(staleThreshold) == staleThreshold \div hoursPerDay

\* validateParams of the watch use case: the field errors it adds.
WatchFieldErrors(transmitter, roundsToCheck, daysToIgnore) ==
    (IF transmitter = ZeroAddress THEN {<<"transmitter_address", "required">>}
     ELSE {})
    \cup (IF roundsToCheck <= 0 THEN {<<"rounds_to_check", "must be positive">>}
          ELSE {})
    \cup (IF roundsToCheck > maxRoundsToCheck
          THEN {<<"rounds_to_check", "must not exceed 100">>} ELSE {})
    \cup (IF daysToIgnore < 0 THEN {<<"days_to_ignore", "cannot be negative">>}
          ELSE {})

ErrWatch(e) == <<"watch use case failed", e>>

\* executeWatch up to the loop over the jobs: the conversion of the
\* parameters, validateParams, FindByTransmitter and the cutoff time.
executeWatch(findOk) ==
    LET days == DaysToIgnore(watch.params.StaleThreshold)
        fields == WatchFieldErrors(watch.params.Transmitter,
                                   watch.params.RoundsToCheck, days)
        w == [watch EXCEPT !.DaysToIgnore = days]
    IN  /\ watch.pc = "start"
        /\ watch' =
              IF fields # {}
              THEN [w EXCEPT !.pc = "returned",
                             !.err = ErrWatch([kind |-> "ValidationError",
                                               fields |-> fields])]
              ELSE IF ~findOk
              THEN [w EXCEPT !.pc = "returned", !.err = ErrWatch(ErrTransport)]
              ELSE IF Len(watch.jobs) = 0
              THEN [w EXCEPT !.pc = "returned", !.hasResult = TRUE]
              ELSE [w EXCEPT !.pc = "jobs",
                             !.summary.TotalJobs = Len(watch.jobs),
                             !.cutoffTime = watch.now - hoursPerDay * days]
        /\ UNCHANGED engineVars /\ AppOnly("watch")

\* startRound of the range checkJobStatus fetches.
WatchStartRound(endRound, roundsToCheck) ==
    IF roundsToCheck > endRound THEN 1
    ELSE Max((endRound - roundsToCheck + 1) % UintModulus, 1)

\* The transmissions of the job's own transmitter among the fetched ones.
OwnTransmissions(job) ==
    SelectSeq(job.fetch.Transmissions,
              LAMBDA tx : tx.TransmitterAddress = job.TransmitterAddress)

\* lastTransmissionTime: the latest BlockTimestamp of the own transmissions.
LastTransmissionTime(job) ==
    LET own == OwnTransmissions(job)
    IN  CHOOSE t \in {own[i].BlockTimestamp : i \in DOMAIN own} :
            \A i \in DOMAIN own : own[i].BlockTimestamp <= t

\* lastTransmissionTime.Before(cutoffTime)
IsStale(lastTransmissionTime, cutoffTime) == lastTransmissionTime < cutoffTime

\* checkJobStatus with the two early returns exchanged: the latest round is
\* read before the job's Active flag is looked at.
checkJobStatusReadsFirst(job, roundsToCheck, cutoffTime) ==
    IF ~job.latestRound.ok THEN JobStatusError
    ELSE IF ~job.Active THEN JobStatusNoActive
    ELSE IF ~job.fetch.ok THEN JobStatusError
    ELSE IF OwnTransmissions(job) = <<>> THEN JobStatusMissing
    ELSE IF IsStale(LastTransmissionTime(job), cutoffTime) THEN JobStatusStale
    ELSE JobStatusFound

\* checkJobStatus: the status of one job.
checkJobStatus(job, roundsToCheck, cutoffTime) ==
    IF ~job.Active THEN JobStatusNoActive
    ELSE IF ~job.latestRound.ok THEN JobStatusError
    ELSE IF ~job.fetch.ok THEN JobStatusError
    ELSE IF OwnTransmissions(job) = <<>> THEN JobStatusMissing
    ELSE IF IsStale(LastTransmissionTime(job), cutoffTime) THEN JobStatusStale
    ELSE JobStatusFound

\* The summary with one more job of a status.
CountStatus(summary, status) ==
    [summary EXCEPT
        !.FoundJobs = IF status = JobStatusFound THEN @ + 1 ELSE @,
        !.StaleJobs = IF status = JobStatusStale THEN @ + 1 ELSE @,
        !.MissingJobs = IF status = JobStatusMissing THEN @ + 1 ELSE @,
        !.NoActiveJobs = IF status = JobStatusNoActive THEN @ + 1 ELSE @,
        !.ErrorJobs = IF status = JobStatusError THEN @ + 1 ELSE @]

\* One turn of the loop over the jobs in Execute; after the last job the use
\* case returns and executeWatch converts the result.
WatchNextJob ==
    /\ watch.pc = "jobs"
    /\ watch.k < Len(watch.jobs)
    /\ LET job == watch.jobs[watch.k + 1]
           status == checkJobStatus(job, watch.params.RoundsToCheck,
                                    watch.cutoffTime)
           fetched == job.Active /\ job.latestRound.ok
       IN  watch' = [watch EXCEPT
             !.k = @ + 1,
             !.latestRoundCalls =
                 IF job.Active THEN Append(@, watch.k + 1) ELSE @,
             !.fetcherCalls =
                 IF fetched
                 THEN Append(@, <<WatchStartRound(job.latestRound.RoundID,
                                                  watch.params.RoundsToCheck),
                                  job.latestRound.RoundID>>)
                 ELSE @,
             !.statuses = Append(@, [Status |-> status]),
             !.summary = CountStatus(@, status),
             !.pc = IF watch.k + 1 = Len(watch.jobs) THEN "returned" ELSE @,
             !.hasResult = watch.k + 1 = Len(watch.jobs)]
    /\ UNCHANGED engineVars /\ AppOnly("watch")

(***************************************************************************)
(* The ethereum client: GetBlockByTimestamp searching the block whose      *)
(* timestamp is closest to a target time.  low, high and mid are uint64,   *)
(* kept modulo UintModulus; the times and the estimate are int64.          *)
(***************************************************************************)
maxIterations == 50

avgBlockTimeMainnet == 12

avgBlockTimePolygon == 2

polygonChainID == 137

IdleClient ==
    [pc |-> "off",
     chainID |-> 1,
     blockTimes |-> <<>>,        \* blockTimes[n + 1]: timestamp of block n
     targetTimestamp |-> 0,
     avgBlockTime |-> 0, estimatedBlock |-> 0,
     low |-> 0, high |-> 0, i |-> 0,
     probes |-> <<>>,            \* block numbers asked of BlockByNumber
     result |-> 0,
     err |-> <<>>]

ClientHead == Len(client.blockTimes) - 1

ErrCurrentBlock == <<"GetBlockByTimestamp.CurrentBlock">>

ErrSearch(mid) == <<"GetBlockByTimestamp.Search", mid>>

ClientReturn(cl, result, err) ==
    [cl EXCEPT !.pc = "returned", !.result = result, !.err = err]

\* GetBlockByTimestamp up to the loop: the current block, the bounds of the
\* search and the initial estimate.
GetBlockByTimestamp(rpcOk) ==
    LET avgBlockTime == IF client.chainID = polygonChainID
                        THEN avgBlockTimePolygon ELSE avgBlockTimeMainnet
        currentTime == client.blockTimes[ClientHead + 1]
        timeDiff == currentTime - client.targetTimestamp
        blocksDiff == TruncDiv(timeDiff, avgBlockTime)
    IN  /\ client.pc = "start"
        /\ client' =
              IF ~rpcOk THEN ClientReturn(client, 0, ErrCurrentBlock)
              ELSE [client EXCEPT
                      !.pc = "search",
                      !.low = 0, !.high = ClientHead, !.i = 0,
                      !.avgBlockTime = avgBlockTime,
                      !.estimatedBlock = Max(ClientHead - blocksDiff, 0)]
        /\ UNCHANGED engineVars /\ AppOnly("client")

\* mid of one iteration: the estimate in the first, the middle afterwards.
SearchMid(cl) ==
    IF cl.i = 0 /\ cl.estimatedBlock > 0
    THEN U64(cl.estimatedBlock)
    ELSE U64(cl.low + cl.high) \div 2

\* One iteration of the search loop, and the return after the loop when the
\* iteration was the last one.  BlockByNumber fails for a block the chain
\* does not have, and whenever the node fails (rpcOk false).
SearchProbe(rpcOk) ==
    LET mid == SearchMid(client)
        probed == [client EXCEPT !.probes = Append(@, mid), !.i = @ + 1]
    IN  /\ client.pc = "search"
        /\ client' =
              IF ~rpcOk \/ mid > ClientHead
              THEN ClientReturn(probed, 0, ErrSearch(mid))
              ELSE LET blockTime == client.blockTimes[mid + 1]
                       low == IF blockTime < client.targetTimestamp
                              THEN U64(mid + 1) ELSE client.low
                       high == IF blockTime > client.targetTimestamp
                               THEN U64(mid - 1) ELSE client.high
                       moved == [probed EXCEPT !.low = low, !.high = high]
                   IN  IF blockTime = client.targetTimestamp
                       THEN ClientReturn(probed, mid, <<>>)
                       ELSE IF U64(high - low) <= 1
                       THEN ClientReturn(moved,
                                IF client.targetTimestamp - blockTime
                                       < client.avgBlockTime
                                THEN mid ELSE low, <<>>)
                       ELSE IF moved.i < maxIterations /\ low <= high
                       THEN moved
                       ELSE ClientReturn(moved, U64(low + high) \div 2, <<>>)
        /\ UNCHANGED engineVars /\ AppOnly("client")

(***************************************************************************)
(* Block windows derived from the chain head: the monitor command, the     *)
(* blockchain watch use case with findActiveContracts, and FetchLatestN.   *)
(* Block numbers are uint64, kept modulo UintModulus.                      *)
(***************************************************************************)
\* blocksToScan := uint64(30000 * 7)
blocksToScan == 210000

\* recentBlocks := uint64(1000)
recentBlocks == 1000

\* Iterations of the monitor loop that are followed.
MaxMonitorIterations == 3

IdleWindow ==
    [pc |-> "off", path |-> "none",
     size |-> 0,                 \* blockRange, queryWindow or lastCheckBlock
     interval |-> 0,
     head |-> 0,                 \* the chain head when it was last asked for
     currentBlock |-> 0, startBlock |-> 0,
     iterations |-> 0,
     derived |-> <<>>,           \* the windows handed to the log queries
     err |-> <<>>]

\* int64(x) of a uint64: the upper half of the range becomes negative.
Int64(x) == IF x >= UintModulus \div 2 THEN x - UintModulus ELSE x

ErrGetBlock == <<"failed to get current block">> \o ErrTransport

ErrGetTransmissions == <<"failed to get transmissions">> \o ErrTransport

\* The window a log query is called with, beside the head it was derived at.
Derived(w, start, end) ==
    Append(w.derived, [start |-> start, end |-> end, head |-> w.head])

\* startBlock before the monitor loop: the subtraction with its overflow
\* check.
MonitorFirstStartBlock(currentBlock, blockRange) ==
    LET startBlock == U64(currentBlock - blockRange)
    IN  IF startBlock > currentBlock THEN 0 ELSE startBlock

\* startBlock = currentBlock - uint64(blockRange) at the end of an iteration.
MonitorStartBlock(currentBlock, blockRange) == U64(currentBlock - blockRange)

\* The monitor command up to its loop.
MonitorBegin(headOk, h) ==
    /\ window.pc = "start" /\ window.path = "monitor"
    /\ window' =
          IF ~headOk
          THEN [window EXCEPT !.pc = "returned", !.head = h, !.err = ErrGetBlock]
          ELSE [window EXCEPT
                  !.pc = "loop", !.head = h, !.currentBlock = h,
                  !.startBlock = MonitorFirstStartBlock(h, window.size)]
    /\ UNCHANGED engineVars /\ AppOnly("window")

\* One iteration of the monitor loop: GetTransmissions over the window, the
\* output, and, with an interval, the sleep and the new head and window.
MonitorIteration(txOk, headOk, h) ==
    /\ window.pc = "loop"
    /\ window.iterations < MaxMonitorIterations
    /\ h >= window.head
    /\ LET w == [window EXCEPT
                   !.iterations = @ + 1,
                   !.derived = Derived(window, window.startBlock,
                                       window.currentBlock)]
       IN  window' =
              IF ~txOk
              THEN IF window.interval = 0
                   THEN [w EXCEPT !.pc = "returned", !.err = ErrGetTransmissions]
                   ELSE w
              ELSE IF window.interval = 0
              THEN [w EXCEPT !.pc = "returned"]
              ELSE IF ~headOk
              THEN [w EXCEPT !.head = h, !.currentBlock = 0]
              ELSE [w EXCEPT
                      !.head = h, !.currentBlock = h,
                      !.startBlock = MonitorStartBlock(h, window.size)]
    /\ UNCHANGED engineVars /\ AppOnly("window")

\* Execute of the blockchain watch use case up to findActiveContracts: the
\* head and the range to scan.
ExecuteScan(headOk, h) ==
    /\ window.pc = "start" /\ window.path = "findActiveContracts"
    /\ window' =
          IF ~headOk
          THEN [window EXCEPT !.pc = "returned", !.head = h, !.err = ErrGetBlock]
          ELSE [window EXCEPT
                  !.pc = "scan", !.head = h, !.currentBlock = h,
                  !.startBlock = h - Min(blocksToScan, h)]
    /\ UNCHANGED engineVars /\ AppOnly("window")

\* checkStartBlock of findActiveContracts.
CheckStartBlock(startBlock, endBlock) ==
    LET checkStartBlock == U64(endBlock - recentBlocks)
    IN  IF checkStartBlock < startBlock THEN startBlock ELSE checkStartBlock

\* findActiveContracts: every known contract is queried over the same window.
findActiveContracts ==
    /\ window.pc = "scan"
    /\ window' = [window EXCEPT
          !.pc = "returned",
          !.derived = Derived(window,
                              CheckStartBlock(window.startBlock,
                                              window.currentBlock),
                              window.currentBlock)]
    /\ UNCHANGED engineVars /\ AppOnly("window")

\* FetchLatestN: startBlock and endBlock from the latest block and the window
\* size, both converted to int64 for big.NewInt.
FetchLatestN(headOk, h) ==
    /\ window.pc = "start" /\ window.path = "FetchLatestN"
    /\ window' =
          IF ~headOk
          THEN [window EXCEPT !.pc = "returned", !.head = h, !.err = ErrGetBlock]
          ELSE LET w == [window EXCEPT !.head = h, !.currentBlock = h]
               IN  [w EXCEPT
                      !.pc = "returned",
                      !.startBlock = Int64(U64(h - window.size)),
                      !.derived = Derived(w, Int64(U64(h - window.size)),
                                          Int64(h))]
    /\ UNCHANGED engineVars /\ AppOnly("window")

\* The application layer at rest, but for one of its components.
AppIdleBut(name) ==
    /\ IF name = "usecase" THEN TRUE ELSE usecase = IdleUseCase
    /\ IF name = "service" THEN TRUE ELSE service = IdleService
    /\ IF name = "watch" THEN TRUE ELSE watch = IdleWatch
    /\ IF name = "client" THEN TRUE ELSE client = IdleClient
    /\ IF name = "window" THEN TRUE ELSE window = IdleWindow

\* The application layer at rest.
AppIdle == AppIdleBut("none")

IdleLookup == [done |-> FALSE, key |-> 0, present |-> FALSE, age |-> 0,
               stored |-> 0, block |-> 0]

\* Every component beside the fetchers at rest.
SideIdle == lookup = IdleLookup /\ AppIdle

\* f.putToCache(key, blockNumber), called on its own.
PutToCache(key, blockNumber) ==
    /\ cache' = putToCache(key, blockNumber)
    /\ UNCHANGED <<chain, head, gateway, gwCalls, calls, now, stream, plan, sideVars>>

\* f.getFromCache(key), called on its own: the answer is kept with what the
\* cache held for the key at the call.
GetFromCache(key) ==
    /\ lookup' = [done |-> TRUE, key |-> key,
                  present |-> key \in DOMAIN cache,
                  age |-> IF key \in DOMAIN cache
                          THEN now - cache[key].timestamp ELSE 0,
                  stored |-> IF key \in DOMAIN cache
                             THEN cache[key].blockNumber ELSE 0,
                  block |-> getFromCache(key)]
    /\ UNCHANGED <<chain, head, gateway, gwCalls, calls, cache, now, stream, plan,
                   appVars>>

\* The instants at which the clock is read: around one cacheExpiration after
\* the first ones.
ClockTimes ==
    {0, 1, cacheExpiration - 1, cacheExpiration, cacheExpiration + 1,
     cacheExpiration + 2}

\* Time passes between two calls.
Tick ==
    /\ \E t \in ClockTimes : t > now /\ now' = t
    /\ UNCHANGED <<chain, head, gateway, gwCalls, calls, cache, stream, plan, sideVars>>

\* sampleStart := currentBlock - min(sampleSize, currentBlock)
SampleStart(currentBlock) == currentBlock - Min(sampleSize, currentBlock)

\* estimateBlockForRound once its sample query has returned.  The float
\* product blocksPerRound * roundDiff is exact for the operands of the model,
\* so the estimate is the truncated quotient.
estimateBlockForRound(failed, transmissions, targetRound, currentBlock) ==
    IF failed \/ Len(transmissions) < 2 THEN 0
    ELSE LET firstTx == transmissions[1]
             lastTx == transmissions[Len(transmissions)]
             firstRound == RoundIdOf(firstTx)
             lastRound == RoundIdOf(lastTx)
             estimatedBlock ==
                 lastTx.BlockNumber
                 + TruncDiv(U64(lastTx.BlockNumber - firstTx.BlockNumber)
                                * (targetRound - lastRound),
                            lastRound - firstRound)
         IN  IF lastRound <= firstRound THEN 0
             ELSE IF estimatedBlock < 0 THEN 0
             ELSE IF estimatedBlock > currentBlock THEN currentBlock
             ELSE estimatedBlock

\* The search range after the estimate: narrowed by margin around it.
NarrowLeft(sampleBlock) ==
    IF sampleBlock > 0 /\ sampleBlock > margin THEN sampleBlock - margin ELSE 0

NarrowRight(sampleBlock, currentBlock) ==
    IF sampleBlock > 0 /\ U64(sampleBlock + margin) < currentBlock
    THEN U64(sampleBlock + margin) ELSE currentBlock

NewLocator(targetRound, isStartRound) ==
    [phase |-> "begin", targetRound |-> targetRound,
     isStartRound |-> isStartRound,
     currentBlock |-> 0, left |-> 0, right |-> 0, resultBlock |-> 0,
     began |-> 0, issued |-> FALSE]

ErrFindStart(e) == <<"failed to find start block for round">> \o e

ErrFindEnd(e) == <<"failed to find end block for round">> \o e

ErrProbe(e) == <<"failed to fetch transmissions at block">> \o e

ErrNoBlock == <<"could not find block for round">>

\* What a gateway call made on the call's context fails with.
GatewayError(c) == IF c.cancelled THEN ErrCtx ELSE ErrTransport

\* The record of one finished findBlockForRound call: what it was asked, when,
\* whether it went to the gateway, and what it returned.
Located(loc, ok, block) ==
    [targetRound |-> loc.targetRound, isStartRound |-> loc.isStartRound,
     began |-> loc.began, issued |-> loc.issued,
     ok |-> ok, block |-> block, at |-> now]

\* findBlockForRound returns (block, nil): FetchByRounds goes on to locate the
\* end round, or to the harvest of [startBlock, endBlock].
LocatorReturn(c, block) ==
    IF c.loc.isStartRound
    THEN [c EXCEPT !.startBlock = block, !.loc = NewLocator(c.b, FALSE),
                   !.located = Append(@, Located(c.loc, TRUE, block))]
    ELSE Spawn([c EXCEPT !.lo = c.startBlock, !.hi = block,
                         !.loc.phase = "done",
                         !.located = Append(@, Located(c.loc, TRUE, block))])

\* findBlockForRound returns (0, err): FetchByRounds wraps and returns it.
LocatorFail(c, err) ==
    ReturnErr([c EXCEPT !.located = Append(@, Located(c.loc, FALSE, 0))],
              IF c.loc.isStartRound THEN ErrFindStart(err)
              ELSE ErrFindEnd(err))

\* Both fetchers: the range check; the plain fetcher then asks for the head,
\* the optimized one locates the start round.
FetchByRounds(h) ==
    LET c == calls[h]
    IN  /\ c.pc = "start"
        /\ c.op = "rounds"
        /\ calls' = [calls EXCEPT ![h] =
              IF InvalidRange(c.a, c.b)
              THEN ReturnErr(c, ErrInvalidInput)
              ELSE IF c.variant = "optimized"
                   THEN [c EXCEPT !.pc = "locate", !.loc = NewLocator(c.a, TRUE)]
                   ELSE [c EXCEPT !.pc = "getHead"]]
        /\ UNCHANGED <<fixedVars, gwCalls, cache>>

\* Plain fetcher: currentBlock from GetBlockNumber, then the harvest of
\* [0, currentBlock].
GetBlockNumber(h) ==
    LET c == calls[h]
    IN  /\ c.pc = "getHead"
        /\ calls' = [calls EXCEPT ![h] =
              IF c.cancelled
              THEN ReturnErr(Issued(c), ErrCtx)
              ELSE Spawn([Issued(c) EXCEPT !.lo = 0, !.hi = head])]
        /\ UNCHANGED <<fixedVars, gwCalls, cache>>

\* findBlockForRound up to its first gateway call: the cache, then
\* GetBlockNumber for the upper bound of the search.
FindBlockBegin(h) ==
    LET c == calls[h]
        block == getFromCache(c.loc.targetRound)
    IN  /\ c.pc = "locate"
        /\ c.loc.phase = "begin"
        /\ calls' = [calls EXCEPT ![h] =
              IF block > 0
              THEN LocatorReturn([c EXCEPT !.loc.began = now], block)
              ELSE IF c.cancelled
                   THEN LocatorFail([Issued(c) EXCEPT !.loc.began = now,
                                                      !.loc.issued = TRUE],
                                    ErrCtx)
                   ELSE [Issued(c) EXCEPT !.loc.phase = "estimate",
                                          !.loc.began = now,
                                          !.loc.issued = TRUE,
                                          !.loc.currentBlock = head]]
        /\ UNCHANGED <<fixedVars, gwCalls, cache>>

\* estimateBlockForRound: one sample query, whose error is swallowed; then the
\* bounds of the binary search.  The context is not consulted.
FindBlockEstimate(h) ==
    LET c == calls[h]
        currentBlock == c.loc.currentBlock
        sampleStart == SampleStart(currentBlock)
        failed == c.cancelled \/ GatewayFails(sampleStart, currentBlock)
        sampleBlock == estimateBlockForRound(failed,
                           GetTransmissions(sampleStart, currentBlock),
                           c.loc.targetRound, currentBlock)
    IN  /\ c.pc = "locate"
        /\ c.loc.phase = "estimate"
        /\ gwCalls' = CountQuery(sampleStart, currentBlock)
        /\ calls' = [calls EXCEPT ![h] =
              [Issued(c) EXCEPT !.loc.phase = "search",
                                !.loc.left = NarrowLeft(sampleBlock),
                                !.loc.right = NarrowRight(sampleBlock, currentBlock),
                                !.loc.resultBlock = 0]]
        /\ UNCHANGED <<fixedVars, cache>>

RoundIdsOf(txs) == {RoundIdOf(txs[k]) : k \in DOMAIN txs}

MinRound(txs) == CHOOSE r \in RoundIdsOf(txs) : \A q \in RoundIdsOf(txs) : r <= q

MaxRound(txs) == CHOOSE r \in RoundIdsOf(txs) : \A q \in RoundIdsOf(txs) : r >= q

\* The first transmission of the window that carries the target round.
FirstWithRound(txs, targetRound) ==
    txs[CHOOSE k \in DOMAIN txs :
           /\ RoundIdOf(txs[k]) = targetRound
           /\ \A j \in 1..(k - 1) : RoundIdOf(txs[j]) # targetRound]

\* targetRound >= minRound && targetRound <= maxRound, and some transmission
\* of the window has exactly the target round.
ProbeHits(txs, targetRound) ==
    /\ txs # <<>>
    /\ targetRound >= MinRound(txs) /\ targetRound <= MaxRound(txs)
    /\ targetRound \in RoundIdsOf(txs)

\* The search state after a window that did not hold the target round.
ProbeAdjust(loc, mid, searchStart, searchEnd, txs) ==
    IF txs = <<>>
    THEN IF loc.isStartRound
         THEN [loc EXCEPT !.left = U64(mid + 1)]
         ELSE [loc EXCEPT !.right = U64(mid - 1)]
    ELSE IF loc.targetRound < MinRound(txs)
         THEN [loc EXCEPT !.right = U64(searchStart - 1)]
         ELSE [loc EXCEPT
                  !.left = U64(searchEnd + 1),
                  !.resultBlock =
                      IF loc.isStartRound /\ MaxRound(txs) < loc.targetRound
                      THEN searchEnd
                      ELSE IF ~loc.isStartRound /\ MinRound(txs) > loc.targetRound
                           THEN searchStart
                           ELSE @]

\* for left <= right { ... }: go round again, or leave the loop with the
\* closest block, or with the error when there is none.
LoopOrLeave(c) ==
    IF c.loc.left <= c.loc.right THEN c
    ELSE IF c.loc.resultBlock > 0 THEN LocatorReturn(c, c.loc.resultBlock)
    ELSE LocatorFail(c, ErrNoBlock)

\* One iteration of the binary search: the window query, the smaller window
\* when that fails, then the decision.  The context is not consulted.
FindBlockProbe(h) ==
    LET c == calls[h]
        loc == c.loc
        mid == U64(loc.left + loc.right) \div 2
        searchStart == mid
        windowEnd == IF U64(mid + searchWindow) > loc.currentBlock
                     THEN loc.currentBlock ELSE U64(mid + searchWindow)
        firstFails == c.cancelled \/ GatewayFails(searchStart, windowEnd)
        afterFirst == CountQuery(searchStart, windowEnd)
        retryEnd == U64(searchStart + retryWindow)
        secondFails == c.cancelled \/ FailsIn(afterFirst, searchStart, retryEnd)
        searchEnd == IF firstFails THEN retryEnd ELSE windowEnd
        transmissions == GetTransmissions(searchStart, searchEnd)
        hit == ~(firstFails /\ secondFails)
               /\ ProbeHits(transmissions, loc.targetRound)
        hitBlock == FirstWithRound(transmissions, loc.targetRound).BlockNumber
    IN  /\ c.pc = "locate"
        /\ loc.phase = "search"
        /\ gwCalls' = IF firstFails
                      THEN CountIn(afterFirst, searchStart, retryEnd)
                      ELSE afterFirst
        /\ cache' = IF hit THEN putToCache(loc.targetRound, hitBlock) ELSE cache
        /\ calls' = [calls EXCEPT ![h] =
              IF firstFails /\ secondFails
              THEN LocatorFail(Issued(c), ErrProbe(GatewayError(c)))
              ELSE IF hit
                   THEN LocatorReturn(Issued(c), hitBlock)
                   ELSE LoopOrLeave([Issued(c) EXCEPT !.loc =
                            ProbeAdjust(loc, mid, searchStart, searchEnd,
                                        transmissions)])]
        /\ UNCHANGED fixedVars

(***************************************************************************)
(* The streaming fetch (intra.Fetch) and its consumer, the fetch command.  *)
(* Fetch sweeps the block range twice in windows of querySize blocks: once *)
(* for ConfigSet events, which fill the digest-to-roster map, and once for *)
(* transmissions, which every task sends on the unbuffered result channel. *)
(***************************************************************************)
\* QUERY_WINDOW of the fetch command: the querySize it passes to Fetch.
QUERY_WINDOW == 5000

\* Windows of the sweeps of the model: up to one more than the semaphores hold.
StreamWindows == 1..(QueryConcurrency + 1)

IdleStream ==
    [pc |-> "off", startRound |-> 0, endRound |-> 0,
     startBlock |-> 0, endBlock |-> 0, locateFails |-> FALSE,
     configLog |-> <<>>, from |-> 0, transmittersMap |-> <<>>,
     cfgTasks |-> <<>>, queryTasks |-> <<>>, closed |-> FALSE,
     closer |-> "off", closes |-> 0,
     consumer |-> "off", written |-> <<>>, warned |-> <<>>, err |-> <<>>]

\* The ConfigSet events of [startBlock, endBlock], in log order.
ConfigsIn(configLog, startBlock, endBlock) ==
    SelectSeq(configLog, LAMBDA ev : InBlocks(ev, startBlock, endBlock))

\* The digest under which the contract accepts a report at a block: that of
\* the last ConfigSet event at or before the block.
ConfigDigestAt(configLog, blockNumber) ==
    LET before == ConfigsIn(configLog, 0, blockNumber)
    IN  IF before = <<>> THEN 0 ELSE before[Len(before)].ConfigDigest

\* to := from + querySize - 1; if to > endBlock { to = endBlock }
WindowEnd(from, endBlock) ==
    IF from + QUERY_WINDOW - 1 > endBlock THEN endBlock
    ELSE from + QUERY_WINDOW - 1

ErrLocate == <<"getting block for round">>

ErrBlockRange == <<"invalid block range: startBlock > endBlock">>

ErrFilter == <<"filtering transmissions failed">> \o ErrTransport

\* transmittersMap after LatestConfigDetails and GetTransmitters: the latest
\* roster under the latest digest, or nothing when either call fails.
LatestRoster(configLog) ==
    IF configLog = <<>> \/ gateway.failFirst > 0 THEN <<>>
    ELSE configLog[Len(configLog)].ConfigDigest
             :> configLog[Len(configLog)].Transmitters

\* Fetch up to the first sweep: the description, the two block locators and
\* wg.Wait(), the range check, the round list, the latest roster.
FetchLocate ==
    /\ stream.pc = "start"
    /\ stream' =
          IF stream.locateFails
          THEN [stream EXCEPT !.pc = "failed", !.err = ErrLocate,
                              !.consumer = "exited"]
          ELSE IF stream.endBlock < stream.startBlock
          THEN [stream EXCEPT !.pc = "failed", !.err = ErrBlockRange,
                              !.consumer = "exited"]
          ELSE [stream EXCEPT !.pc = "cfgDispatch",
                              !.from = stream.startBlock,
                              !.transmittersMap = LatestRoster(stream.configLog)]
    /\ UNCHANGED <<chain, head, gateway, gwCalls, calls, cache, now, plan, sideVars>>

CfgFiltering ==
    {i \in DOMAIN stream.cfgTasks : stream.cfgTasks[i].state = "filter"}

\* Tasks of a sweep that hold a slot of its semaphore.
CfgRunning == {i \in DOMAIN stream.cfgTasks : stream.cfgTasks[i].state # "done"}

QueryFiltering ==
    {i \in DOMAIN stream.queryTasks : stream.queryTasks[i].state = "filter"}

\* The transmission tasks that have not reached queryWg.Done(): they hold a
\* slot of querySem and keep queryWg.Wait() waiting.
QueryRunning ==
    {i \in DOMAIN stream.queryTasks : stream.queryTasks[i].state # "done"}

\* One iteration of the ConfigSet dispatch loop: cfgSem <- struct{}{} and the
\* go statement; after the last window the dispatcher is in cfgWg.Wait().
CfgDispatch ==
    LET to == WindowEnd(stream.from, stream.endBlock)
    IN  /\ stream.pc = "cfgDispatch"
        /\ Cardinality(CfgRunning) < QueryConcurrency
        /\ stream' = [stream EXCEPT
              !.cfgTasks = Append(@, [start |-> stream.from, end |-> to,
                                      state |-> "filter"]),
              !.from = to + 1,
              !.pc = IF to + 1 > stream.endBlock THEN "cfgWait"
                     ELSE "cfgDispatch"]
        /\ UNCHANGED <<chain, head, gateway, gwCalls, calls, cache, now, plan, sideVars>>

\* A ConfigSet task: aggr.FilterConfigSet.  On an error the task logs and
\* ends; with no event in the window it ends; otherwise it goes on to write.
CfgTaskFilter(i) ==
    LET t == stream.cfgTasks[i]
        failed == GatewayFails(t.start, t.end)
        events == ConfigsIn(stream.configLog, t.start, t.end)
    IN  /\ t.state = "filter"
        /\ gwCalls' = CountQuery(t.start, t.end)
        /\ stream' = [stream EXCEPT !.cfgTasks[i].state =
              IF failed \/ events = <<>> THEN "done" ELSE "write"]
        /\ UNCHANGED <<chain, head, gateway, calls, cache, now, plan, sideVars>>

RECURSIVE StoreRosters(_, _)
StoreRosters(map, events) ==
    IF events = <<>> THEN map
    ELSE StoreRosters((Head(events).ConfigDigest :> Head(events).Transmitters)
                          @@ map,
                      Tail(events))

\* The ConfigSet tasks inside their loop for iter.Next() { transmittersMap[
\* digest] = transmitters }.  No lock is taken around the assignment.
CfgWriting == {i \in DOMAIN stream.cfgTasks : stream.cfgTasks[i].state = "write"}

\* What a task's map writes can do.  Alone in its loop the task stores its
\* rosters.  With another task in its loop the writes race on the map: they
\* may still be stored, the map may lose them, or the runtime stops the
\* process with "fatal error: concurrent map writes".
WriteOutcomes(i) ==
    IF CfgWriting \ {i} = {} THEN {"stored"} ELSE {"stored", "lost", "fatal"}

\* for iter.Next() { transmittersMap[digest] = transmitters }: the task stores
\* the rosters of its window, then releases its slot.
CfgTaskWrite(i) ==
    LET t == stream.cfgTasks[i]
    IN  /\ t.state = "write"
        /\ \E outcome \in WriteOutcomes(i) :
              stream' =
                  IF outcome = "fatal"
                  THEN [stream EXCEPT
                          !.pc = "crashed", !.consumer = "exited",
                          !.cfgTasks = [j \in DOMAIN @ |->
                              IF @[j].state = "done" THEN @[j]
                              ELSE [@[j] EXCEPT !.state = "killed"]]]
                  ELSE [stream EXCEPT
                          !.cfgTasks[i].state = "done",
                          !.transmittersMap =
                              IF outcome = "lost" THEN @
                              ELSE StoreRosters(@,
                                       ConfigsIn(stream.configLog,
                                                 t.start, t.end))]
        /\ UNCHANGED <<chain, head, gateway, gwCalls, calls, cache, now, plan, sideVars>>

\* cfgWg.Wait() returns: the transmission sweep starts at startBlock.
CfgWait ==
    /\ stream.pc = "cfgWait"
    /\ CfgRunning = {}
    /\ stream' = [stream EXCEPT !.pc = "queryDispatch",
                                !.from = stream.startBlock]
    /\ UNCHANGED <<chain, head, gateway, gwCalls, calls, cache, now, plan, sideVars>>

\* One iteration of the transmission dispatch loop: querySem <- struct{}{} and
\* the go statement.  After the last window Fetch starts the goroutine that
\* closes the channel and returns nil, and the fetch command begins to read.
QueryDispatch ==
    LET to == WindowEnd(stream.from, stream.endBlock)
        last == to + 1 > stream.endBlock
    IN  /\ stream.pc = "queryDispatch"
        /\ Cardinality(QueryRunning) < QueryConcurrency
        /\ stream' = [stream EXCEPT
              !.queryTasks = Append(@, [start |-> stream.from, end |-> to,
                                        state |-> "filter",
                                        output |-> <<>>, err |-> <<>>]),
              !.from = to + 1,
              !.pc = IF last THEN "returned" ELSE "queryDispatch",
              !.closer = IF last THEN "waiting" ELSE @,
              !.consumer = IF last THEN "reading" ELSE @]
        /\ UNCHANGED <<chain, head, gateway, gwCalls, calls, cache, now, plan, sideVars>>

\* The roster the map holds for a digest: nil for a digest it does not hold.
RosterOf(map, digest) == IF digest \in DOMAIN map THEN map[digest] ELSE <<>>

\* filterAndCaptureTransmissions without an error: the events of the window
\* whose aggregator round is in roundIds, each with the roster of its digest.
CaptureTransmissions(startBlock, endBlock) ==
    LET events == SelectSeq(GetTransmissions(startBlock, endBlock),
                      LAMBDA tx : /\ tx.AggregatorRoundId >= stream.startRound
                                  /\ tx.AggregatorRoundId <= stream.endRound)
    IN  [k \in DOMAIN events |->
            [RoundId |-> events[k].AggregatorRoundId,
             Transmitters |->
                 RosterOf(stream.transmittersMap,
                     ConfigDigestAt(stream.configLog, events[k].BlockNumber))]]

\* A transmission task up to its send: the filter query and the attribution.
QueryTaskFilter(i) ==
    LET t == stream.queryTasks[i]
        failed == GatewayFails(t.start, t.end)
    IN  /\ t.state = "filter"
        /\ gwCalls' = CountQuery(t.start, t.end)
        /\ stream' = [stream EXCEPT !.queryTasks[i] =
              IF failed
              THEN [t EXCEPT !.state = "send", !.err = ErrFilter]
              ELSE [t EXCEPT !.state = "send",
                             !.output = CaptureTransmissions(t.start, t.end)]]
        /\ UNCHANGED <<chain, head, gateway, calls, cache, now, plan, sideVars>>

\* resultChan <- QueryResult{...} meets the fetch command's receive: the task
\* releases its slot and ends; the command skips a result with an error or
\* without output, and writes every other result to the file.
ReceiveResult(i) ==
    LET t == stream.queryTasks[i]
    IN  /\ stream.consumer = "reading"
        /\ t.state = "send"
        /\ stream' = [stream EXCEPT
              !.queryTasks[i].state = "done",
              !.warned = IF t.err # <<>> THEN Append(@, t.start) ELSE @,
              !.written = IF t.err = <<>> /\ t.output # <<>>
                          THEN Append(@, t.output) ELSE @]
        /\ UNCHANGED <<chain, head, gateway, gwCalls, calls, cache, now, plan, sideVars>>

\* go func() { queryWg.Wait(); close(resultChan) }()
CloseResultChan ==
    /\ stream.closer = "waiting"
    /\ QueryRunning = {}
    /\ stream' = [stream EXCEPT !.closed = TRUE, !.closes = @ + 1,
                                !.closer = "done"]
    /\ UNCHANGED <<chain, head, gateway, gwCalls, calls, cache, now, plan, sideVars>>

\* for res := range resultChan ends on the closed channel: the command is done.
ConsumerDone ==
    /\ stream.consumer = "reading"
    /\ stream.closed
    /\ stream' = [stream EXCEPT !.consumer = "done"]
    /\ UNCHANGED <<chain, head, gateway, gwCalls, calls, cache, now, plan, sideVars>>


(***************************************************************************)
(* Inputs.                                                                 *)
(***************************************************************************)
\* Blocks that carry events and bound the harvest ranges: multiples of
\* defaultBlockInterval, so that the planners emit several chunks.
EventBlocks == {0, defaultBlockInterval, 2 * defaultBlockInterval}

\* The k-th (Epoch, Round) pair in round-id order: ids 1, 2, 256, 257, 258, ...
RoundAt(k) == [Epoch |-> k \div 3, Round |-> k % 3]

RoundChoices == {RoundAt(k) : k \in 1..MaxEvents}

\* The log index of the i-th event: its place among the events of its block.
LogIndexIn(blocks, i) ==
    Cardinality({j \in 1..(i - 1) : blocks[j] = blocks[i]})

MakeChain(blocks, rounds) ==
    [i \in DOMAIN blocks |->
        [BlockNumber |-> blocks[i], LogIndex |-> LogIndexIn(blocks, i),
         AggregatorRoundId |-> i,
         Epoch |-> rounds[i].Epoch, Round |-> rounds[i].Round]]

\* Event logs of n events: blocks never decrease along the log.
ChainsOfLen(n) ==
    {MakeChain(blocks, rounds) :
        blocks \in {bs \in [1..n -> EventBlocks] :
                       \A i \in 1..(n - 1) : bs[i] <= bs[i + 1]},
        rounds \in [1..n -> RoundChoices]}

Chains == UNION {ChainsOfLen(n) : n \in 0..MaxEvents}

\* Logs whose round ids rise by one step per event, or fall by one step.
IsAscending(c) == \A i \in DOMAIN c : [Epoch |-> c[i].Epoch, Round |-> c[i].Round] = RoundAt(i)

IsDescending(c) ==
    \A i \in DOMAIN c :
        [Epoch |-> c[i].Epoch, Round |-> c[i].Round] = RoundAt(Len(c) + 1 - i)

HarvestChains == {c \in Chains : IsAscending(c) \/ IsDescending(c)}

\* Logs whose round ids never decrease along the log.
IsRoundMonotone(c) ==
    \A i \in 1..(Len(c) - 1) : RoundIdOf(c[i]) <= RoundIdOf(c[i + 1])

\* Logs whose round ids all differ.
HasDistinctRounds(c) ==
    \A i, j \in DOMAIN c : i # j => RoundIdOf(c[i]) # RoundIdOf(c[j])

Policies ==
    {[failFirst |-> k, badStart |-> -1] : k \in 0..maxRetries}
    \cup {[failFirst |-> 0, badStart |-> defaultBlockInterval]}

Variants == {"naive", "optimized"}

IdlePlan == [stage |-> "off", startBlock |-> 0, endBlock |-> 0,
             concurrency |-> 1, chunks |-> <<>>]

(***************************************************************************)
(* Specification of one FetchByBlocks call.                                *)
(***************************************************************************)
Init ==
    /\ chain \in HarvestChains
    /\ head = 2 * defaultBlockInterval
    /\ gateway \in Policies
    /\ gwCalls = <<>>
    /\ \E v \in Variants, a \in EventBlocks, b \in EventBlocks :
          calls = [h \in {1} |-> NewCall("blocks", v, a, b)]
    /\ cache = <<>>
    /\ now = 0
    /\ SideIdle
    /\ stream = IdleStream
    /\ plan = IdlePlan

Next ==
    \/ \E h \in DOMAIN calls : FetchByBlocks(h)
    \/ \E h \in DOMAIN calls : \E i \in DOMAIN calls[h].tasks : ChunkTaskAcquire(h, i)
    \/ \E h \in DOMAIN calls : \E i \in DOMAIN calls[h].tasks : ChunkTaskCall(h, i)
    \/ \E h \in DOMAIN calls : \E i \in DOMAIN calls[h].tasks : ChunkTaskReturn(h, i)
    \/ \E h \in DOMAIN calls : HarvestJoin(h)
    \/ \E h \in DOMAIN calls : RetryBackoff(h)
    \/ \E h \in DOMAIN calls : Cancel(h)

Spec == Init /\ [][Next]_vars


(***************************************************************************)
(* Specification of the range planners on their own: the input is drawn in *)
(* Init, one action per planner computes the chunk list.                   *)
(***************************************************************************)
\* Block numbers around the multiples of defaultBlockInterval.
PlanBlocks ==
    {0, 1, 2, 3, 7, 1000, 2000, 15000, 100000}
    \cup {k * defaultBlockInterval + d : k \in 1..2, d \in {-1, 0, 1}}

\* Largest small concurrency tried; 10 (the tests) and 30 (the constructors)
\* are tried as well.
PlanMaxConcurrency == 4

PlanConcurrencies == 1..PlanMaxConcurrency \cup {10, 30}

InitPlan ==
    /\ chain = <<>>
    /\ head = 0
    /\ gateway = [failFirst |-> 0, badStart |-> -1]
    /\ gwCalls = <<>>
    /\ calls = [h \in {1} |-> NoCall]
    /\ cache = <<>>
    /\ now = 0
    /\ SideIdle
    /\ stream = IdleStream
    /\ \E a \in PlanBlocks, b \in PlanBlocks, n \in PlanConcurrencies :
          /\ a <= b
          /\ plan = [stage |-> "input", startBlock |-> a, endBlock |-> b,
                     concurrency |-> n, chunks |-> <<>>]

PlanOptimized ==
    /\ plan.stage = "input"
    /\ plan' = [plan EXCEPT !.stage = "optimized",
                  !.chunks = splitBlockRangeOptimized(plan.startBlock,
                                 plan.endBlock, plan.concurrency)]
    /\ UNCHANGED <<chain, head, gateway, gwCalls, calls, cache, now, stream, sideVars>>

PlanNaive ==
    /\ plan.stage = "input"
    /\ plan' = [plan EXCEPT !.stage = "naive",
                  !.chunks = splitBlockRange(plan.startBlock, plan.endBlock,
                                 plan.concurrency)]
    /\ UNCHANGED <<chain, head, gateway, gwCalls, calls, cache, now, stream, sideVars>>

NextPlan == PlanOptimized \/ PlanNaive

SpecPlan == InitPlan /\ [][NextPlan]_vars

(***************************************************************************)
(* Specification of fetch calls running at the same time on one fetcher.   *)
(***************************************************************************)
InitMulti ==
    /\ chain \in {c \in HarvestChains : Len(c) = 1}
    /\ head = 2 * defaultBlockInterval
    /\ gateway = [failFirst |-> 0, badStart |-> -1]
    /\ gwCalls = <<>>
    /\ \E v \in Variants, b \in EventBlocks :
          calls = [h \in Calls |-> NewCall("blocks", v, 0, b)]
    /\ cache = <<>>
    /\ now = 0
    /\ SideIdle
    /\ stream = IdleStream
    /\ plan = IdlePlan

NextMulti ==
    \/ \E h \in DOMAIN calls : FetchByBlocks(h)
    \/ \E h \in DOMAIN calls : \E i \in DOMAIN calls[h].tasks : ChunkTaskAcquire(h, i)
    \/ \E h \in DOMAIN calls : \E i \in DOMAIN calls[h].tasks : ChunkTaskCall(h, i)
    \/ \E h \in DOMAIN calls : \E i \in DOMAIN calls[h].tasks : ChunkTaskReturn(h, i)
    \/ \E h \in DOMAIN calls : HarvestJoin(h)

SpecMulti == InitMulti /\ [][NextMulti]_vars

(***************************************************************************)
(* Specification of one FetchByRounds call.                                *)
(***************************************************************************)
\* The round ids asked for: those the logs of the model can hold.
RoundTargets == {RoundIdOf(RoundAt(k)) : k \in 1..MaxEvents}

\* A gateway that answers, and one that refuses ranges starting at the head.
RoundPolicies ==
    {[failFirst |-> 0, badStart |-> -1],
     [failFirst |-> 0, badStart |-> 2 * defaultBlockInterval]}

InitRounds ==
    /\ chain \in {c \in HarvestChains : IsAscending(c)}
    /\ head = 2 * defaultBlockInterval
    /\ gateway \in RoundPolicies
    /\ gwCalls = <<>>
    /\ \E v \in Variants, s \in RoundTargets, e \in RoundTargets :
          calls = [h \in {1} |-> NewCall("rounds", v, s, e)]
    /\ cache = <<>>
    /\ now = 0
    /\ SideIdle
    /\ stream = IdleStream
    /\ plan = IdlePlan

NextRounds ==
    \/ \E h \in DOMAIN calls : FetchByRounds(h)
    \/ \E h \in DOMAIN calls : GetBlockNumber(h)
    \/ \E h \in DOMAIN calls : FindBlockBegin(h)
    \/ \E h \in DOMAIN calls : FindBlockEstimate(h)
    \/ \E h \in DOMAIN calls : FindBlockProbe(h)
    \/ \E h \in DOMAIN calls : \E i \in DOMAIN calls[h].tasks : ChunkTaskAcquire(h, i)
    \/ \E h \in DOMAIN calls : \E i \in DOMAIN calls[h].tasks : ChunkTaskCall(h, i)
    \/ \E h \in DOMAIN calls : \E i \in DOMAIN calls[h].tasks : ChunkTaskReturn(h, i)
    \/ \E h \in DOMAIN calls : HarvestJoin(h)
    \/ \E h \in DOMAIN calls : RetryBackoff(h)
    \/ \E h \in DOMAIN calls : Cancel(h)

SpecRounds == InitRounds /\ [][NextRounds]_vars

\* The same call under a scheduler that lets the call take a step whenever
\* it can: the Go runtime does not starve a runnable goroutine.
SpecRoundsLive == InitRounds /\ [][NextRounds]_vars /\ WF_vars(NextRounds)

(***************************************************************************)
(* Specification of one run of the fetch command over the streaming fetch. *)
(***************************************************************************)
ConfigSet(blockNumber, digest, transmitters) ==
    [BlockNumber |-> blockNumber, ConfigDigest |-> digest,
     Transmitters |-> transmitters]

\* One roster set at block 0, or a second one set in the second window.
StreamConfigLogs ==
    {<<ConfigSet(0, 1, <<"t1", "t2">>)>>,
     <<ConfigSet(0, 1, <<"t1", "t2">>),
       ConfigSet(QUERY_WINDOW, 2, <<"t2", "t3">>)>>}

StreamPolicies ==
    {[failFirst |-> 0, badStart |-> -1],
     [failFirst |-> 1, badStart |-> -1],
     [failFirst |-> 0, badStart |-> QUERY_WINDOW]}

InitStream ==
    /\ chain \in {c \in HarvestChains : IsAscending(c)}
    /\ head = 2 * defaultBlockInterval
    /\ gateway \in StreamPolicies
    /\ gwCalls = <<>>
    /\ calls = [h \in {1} |-> NoCall]
    /\ cache = <<>>
    /\ now = 0
    /\ SideIdle
    /\ plan = IdlePlan
    /\ \E n \in StreamWindows \cup {0}, e \in 1..MaxEvents,
          log \in StreamConfigLogs, bad \in BOOLEAN :
          stream = [IdleStream EXCEPT
                       !.pc = "start", !.startRound = 1, !.endRound = e,
                       !.startBlock = IF n = 0 THEN 1 ELSE 0,
                       !.endBlock = IF n = 0 THEN 0 ELSE n * QUERY_WINDOW - 1,
                       !.locateFails = bad /\ n = 1,
                       !.configLog = log]

NextStream ==
    \/ FetchLocate
    \/ CfgDispatch
    \/ \E i \in DOMAIN stream.cfgTasks : CfgTaskFilter(i)
    \/ \E i \in DOMAIN stream.cfgTasks : CfgTaskWrite(i)
    \/ CfgWait
    \/ QueryDispatch
    \/ \E i \in DOMAIN stream.queryTasks : QueryTaskFilter(i)
    \/ \E i \in DOMAIN stream.queryTasks : ReceiveResult(i)
    \/ CloseResultChan
    \/ ConsumerDone

SpecStream == InitStream /\ [][NextStream]_vars

\* The same run under a scheduler that lets a runnable goroutine run.
SpecStreamLive == InitStream /\ [][NextStream]_vars /\ WF_vars(NextStream)

(***************************************************************************)
(* Specification of the round-to-block cache on its own: entries are put,  *)
(* time passes, keys are looked up.                                        *)
(***************************************************************************)
CacheKeys == RoundTargets

CacheBlocks == {0, defaultBlockInterval}

InitCache ==
    /\ chain = <<>>
    /\ head = 0
    /\ gateway = [failFirst |-> 0, badStart |-> -1]
    /\ gwCalls = <<>>
    /\ calls = [h \in {1} |-> NoCall]
    /\ cache = <<>>
    /\ now = 0
    /\ stream = IdleStream
    /\ plan = IdlePlan
    /\ SideIdle

NextCache ==
    \/ \E key \in CacheKeys, b \in CacheBlocks : PutToCache(key, b)
    \/ \E key \in CacheKeys : GetFromCache(key)
    \/ Tick

SpecCache == InitCache /\ [][NextCache]_vars

(***************************************************************************)
(* Specification of a FetchByRounds call and its repetition on the same    *)
(* optimized fetcher: the second call starts when the first has returned,  *)
(* and time may pass at any moment.                                        *)
(***************************************************************************)
\* The caller issues its next call once the previous one has returned.
StartNext(h) ==
    /\ h - 1 \in DOMAIN calls
    /\ calls[h - 1].pc = "returned"
    /\ calls[h].pc = "queued"
    /\ calls' = [calls EXCEPT ![h].pc = "start"]
    /\ UNCHANGED <<fixedVars, gwCalls, cache>>

InitLocate ==
    /\ chain \in {c \in HarvestChains : IsAscending(c)}
    /\ head = 2 * defaultBlockInterval
    /\ gateway = [failFirst |-> 0, badStart |-> -1]
    /\ gwCalls = <<>>
    /\ \E s \in RoundTargets, e \in RoundTargets :
          /\ s <= e
          /\ calls = [h \in {1, 2} |->
                         [NewCall("rounds", "optimized", s, e) EXCEPT
                             !.pc = IF h = 1 THEN "start" ELSE "queued"]]
    /\ cache = <<>>
    /\ now = 0
    /\ SideIdle
    /\ stream = IdleStream
    /\ plan = IdlePlan

NextLocate ==
    \/ \E h \in DOMAIN calls : FetchByRounds(h)
    \/ \E h \in DOMAIN calls : FindBlockBegin(h)
    \/ \E h \in DOMAIN calls : FindBlockEstimate(h)
    \/ \E h \in DOMAIN calls : FindBlockProbe(h)
    \/ \E h \in DOMAIN calls : \E i \in DOMAIN calls[h].tasks : ChunkTaskAcquire(h, i)
    \/ \E h \in DOMAIN calls : \E i \in DOMAIN calls[h].tasks : ChunkTaskCall(h, i)
    \/ \E h \in DOMAIN calls : \E i \in DOMAIN calls[h].tasks : ChunkTaskReturn(h, i)
    \/ \E h \in DOMAIN calls : HarvestJoin(h)
    \/ \E h \in DOMAIN calls : StartNext(h)
    \/ Tick

SpecLocate == InitLocate /\ [][NextLocate]_vars

(***************************************************************************)
(* Specification of one call of either entry point, FetchByBlocks or       *)
(* FetchByRounds, of either fetcher, with ranges in both orders.           *)
(***************************************************************************)
EntryPolicies ==
    {[failFirst |-> 0, badStart |-> -1], [failFirst |-> 1, badStart |-> -1]}

InitEntry ==
    /\ chain \in {c \in HarvestChains : IsAscending(c)}
    /\ head = 2 * defaultBlockInterval
    /\ gateway \in EntryPolicies
    /\ gwCalls = <<>>
    /\ \E v \in Variants :
          \/ \E a \in EventBlocks, b \in EventBlocks :
                calls = [h \in {1} |-> NewCall("blocks", v, a, b)]
          \/ \E s \in RoundTargets, e \in RoundTargets :
                calls = [h \in {1} |-> NewCall("rounds", v, s, e)]
    /\ cache = <<>>
    /\ now = 0
    /\ SideIdle
    /\ stream = IdleStream
    /\ plan = IdlePlan

NextEntry ==
    \/ \E h \in DOMAIN calls : FetchByBlocks(h)
    \/ \E h \in DOMAIN calls : FetchByRounds(h)
    \/ \E h \in DOMAIN calls : GetBlockNumber(h)
    \/ \E h \in DOMAIN calls : FindBlockBegin(h)
    \/ \E h \in DOMAIN calls : FindBlockEstimate(h)
    \/ \E h \in DOMAIN calls : FindBlockProbe(h)
    \/ \E h \in DOMAIN calls : \E i \in DOMAIN calls[h].tasks : ChunkTaskAcquire(h, i)
    \/ \E h \in DOMAIN calls : \E i \in DOMAIN calls[h].tasks : ChunkTaskCall(h, i)
    \/ \E h \in DOMAIN calls : \E i \in DOMAIN calls[h].tasks : ChunkTaskReturn(h, i)
    \/ \E h \in DOMAIN calls : HarvestJoin(h)
    \/ \E h \in DOMAIN calls : RetryBackoff(h)
    \/ \E h \in DOMAIN calls : Cancel(h)

SpecEntry == InitEntry /\ [][NextEntry]_vars

(***************************************************************************)
(* Specification of one Execute call of the fetch use case.                *)
(***************************************************************************)
Addresses == {ZeroAddress, 1}

UseCaseRounds ==
    {0, 1, 10, maxRoundRange, maxRoundRange + 1, maxRoundRange + 2,
     UintModulus - 1}

\* What the fetcher may hand back: none, one, a full batch, more than one
\* batch, more than two batches.
UseCaseLengths == {0, 1, batchSize, batchSize + 1, 2 * batchSize + 1}

UseCaseResults ==
    {[nil |-> FALSE, StartRound |-> 1, EndRound |-> 10,
      Transmissions |-> [k \in 1..n |-> k]] : n \in UseCaseLengths}

InitUseCase ==
    /\ chain = <<>>
    /\ head = 0
    /\ gateway = [failFirst |-> 0, badStart |-> -1]
    /\ gwCalls = <<>>
    /\ calls = [h \in {1} |-> NoCall]
    /\ cache = <<>>
    /\ now = 0
    /\ stream = IdleStream
    /\ plan = IdlePlan
    /\ lookup = IdleLookup
    /\ AppIdleBut("usecase")
    /\ \E address \in Addresses, s \in UseCaseRounds, e \in UseCaseRounds,
          repo \in BOOLEAN, k \in 0..3 :
          usecase = [IdleUseCase EXCEPT
                        !.pc = "start",
                        !.params = [ContractAddress |-> address,
                                    StartRound |-> s, EndRound |-> e],
                        !.hasRepository = repo,
                        !.saveFailsAt = k]

NextUseCase ==
    \/ Execute
    \/ \E result \in UseCaseResults : FetcherReturn(TRUE, result, NoError)
    \/ FetcherReturn(FALSE, NilResult, ErrTransport)
    \/ SaveBatch

SpecUseCase == InitUseCase /\ [][NextUseCase]_vars

(***************************************************************************)
(* Specification of one GetTransmissions call.  The contract accepts a     *)
(* report only from a transmitter of its current roster, so every event    *)
(* carries an address of the roster active at its block.                   *)
(***************************************************************************)
ServiceAddresses == {1, 2, byteRange, byteRange + 1, unknownObserver}

ServiceRosters ==
    {<<a>> : a \in ServiceAddresses}
    \cup {r \in ServiceAddresses \X ServiceAddresses : r[1] # r[2]}

ServiceConfigLogs ==
    {<<[BlockNumber |-> 1, Transmitters |-> r]>> : r \in ServiceRosters}
    \cup {<<[BlockNumber |-> 1, Transmitters |-> r],
            [BlockNumber |-> QUERY_WINDOW, Transmitters |-> q]>> :
              r \in ServiceRosters, q \in {<<2, 1>>, <<byteRange + 1>>}}

ServiceEventBlocks == {<<2>>, <<QUERY_WINDOW>>, <<2, QUERY_WINDOW + 1>>}

InitService ==
    /\ chain = <<>>
    /\ head = 0
    /\ gateway = [failFirst |-> 0, badStart |-> -1]
    /\ gwCalls = <<>>
    /\ calls = [h \in {1} |-> NoCall]
    /\ cache = <<>>
    /\ now = 0
    /\ stream = IdleStream
    /\ plan = IdlePlan
    /\ lookup = IdleLookup
    /\ AppIdleBut("service")
    /\ \E log \in ServiceConfigLogs, blocks \in ServiceEventBlocks :
          \E senders \in [DOMAIN blocks -> ServiceAddresses] :
             /\ \A i \in DOMAIN blocks :
                   \E j \in DOMAIN TransmittersAt(log, blocks[i]) :
                      TransmittersAt(log, blocks[i])[j] = senders[i]
             /\ service = [IdleService EXCEPT
                   !.pc = "iterate",
                   !.configLog = log,
                   !.events = [i \in DOMAIN blocks |->
                                  [BlockNumber |-> blocks[i],
                                   Transmitter |-> senders[i]]]]

NextService ==
    \/ \E blockOk \in BOOLEAN, configOk \in BOOLEAN :
          NextTransmission(blockOk, configOk)
    \/ ReturnTransmissions

SpecService == InitService /\ [][NextService]_vars

(***************************************************************************)
(* Specification of one executeWatch call: stale thresholds of whole       *)
(* hours, and jobs of every kind.                                          *)
(***************************************************************************)
WatchNow == 1000

WatchThresholds == {1, 12, hoursPerDay, 36, 2 * hoursPerDay}

\* Ages, in hours, of the fetched transmissions.
WatchAges == {0, 1, 13, hoursPerDay, 30, 47, 49}

WatchTransmitter == ZeroAddress + 1

WatchJob(active, latestOk, fetchOk, transmissions) ==
    [TransmitterAddress |-> WatchTransmitter, Active |-> active,
     latestRound |-> [ok |-> latestOk, RoundID |-> 5],
     fetch |-> [ok |-> fetchOk, Transmissions |-> transmissions]]

WatchTx(address, age) ==
    [TransmitterAddress |-> address, BlockTimestamp |-> WatchNow - age]

WatchJobs ==
    {WatchJob(FALSE, TRUE, TRUE, <<>>), WatchJob(FALSE, FALSE, TRUE, <<>>),
     WatchJob(TRUE, FALSE, TRUE, <<>>),
     WatchJob(TRUE, TRUE, FALSE, <<>>), WatchJob(TRUE, TRUE, TRUE, <<>>),
     WatchJob(TRUE, TRUE, TRUE, <<WatchTx(2, 1)>>)}
    \cup {WatchJob(TRUE, TRUE, TRUE, <<WatchTx(WatchTransmitter, a)>>) :
             a \in WatchAges}
    \cup {WatchJob(TRUE, TRUE, TRUE,
                   <<WatchTx(WatchTransmitter, a), WatchTx(2, 0),
                     WatchTx(WatchTransmitter, 49)>>) : a \in {1, 30}}

InitWatch ==
    /\ chain = <<>>
    /\ head = 0
    /\ gateway = [failFirst |-> 0, badStart |-> -1]
    /\ gwCalls = <<>>
    /\ calls = [h \in {1} |-> NoCall]
    /\ cache = <<>>
    /\ now = 0
    /\ stream = IdleStream
    /\ plan = IdlePlan
    /\ lookup = IdleLookup
    /\ AppIdleBut("watch")
    /\ \E transmitter \in {ZeroAddress, WatchTransmitter},
          rounds \in {0, maxRoundsToCheck, maxRoundsToCheck + 1},
          threshold \in WatchThresholds,
          jobs \in {<<>>} \cup {<<j>> : j \in WatchJobs}
                   \cup {<<WatchJob(FALSE, TRUE, TRUE, <<>>), j>> : j \in WatchJobs} :
          watch = [IdleWatch EXCEPT
                      !.pc = "start",
                      !.params = [Transmitter |-> transmitter,
                                  RoundsToCheck |-> rounds,
                                  StaleThreshold |-> threshold],
                      !.jobs = jobs,
                      !.now = WatchNow]

NextWatch ==
    \/ \E findOk \in BOOLEAN : executeWatch(findOk)
    \/ WatchNextJob

SpecWatch == InitWatch /\ [][NextWatch]_vars

(***************************************************************************)
(* Specification of one GetBlockByTimestamp call on a chain whose block    *)
(* timestamps strictly increase.                                           *)
(***************************************************************************)
MaxHead == 3

ClientBase == 100

\* Seconds between two blocks.
BlockGaps == {1, avgBlockTimeMainnet, 2 * avgBlockTimeMainnet + 1}

RECURSIVE TimesFrom(_, _)
TimesFrom(first, gaps) ==
    IF gaps = <<>> THEN <<first>>
    ELSE <<first>> \o TimesFrom(first + gaps[1], Tail(gaps))

ClientChains ==
    UNION {{TimesFrom(ClientBase, gaps) : gaps \in [1..n -> BlockGaps]} :
             n \in 0..MaxHead}

\* Target times: the block times, their neighbours, and times further off
\* before the first and after the last block.
ClientTargets(times) ==
    UNION {{times[k] - 1, times[k], times[k] + 1, times[k] + 6} :
              k \in DOMAIN times}
    \cup {times[1] - 2 * avgBlockTimeMainnet,
          times[Len(times)] + 2 * avgBlockTimeMainnet}

InitClient ==
    /\ chain = <<>>
    /\ head = 0
    /\ gateway = [failFirst |-> 0, badStart |-> -1]
    /\ gwCalls = <<>>
    /\ calls = [h \in {1} |-> NoCall]
    /\ cache = <<>>
    /\ now = 0
    /\ stream = IdleStream
    /\ plan = IdlePlan
    /\ lookup = IdleLookup
    /\ AppIdleBut("client")
    /\ \E times \in ClientChains, id \in {1, polygonChainID} :
          \E target \in ClientTargets(times) :
             client = [IdleClient EXCEPT
                          !.pc = "start", !.chainID = id,
                          !.blockTimes = times,
                          !.targetTimestamp = target]

NextClient ==
    \/ \E rpcOk \in BOOLEAN : GetBlockByTimestamp(rpcOk)
    \/ \E rpcOk \in BOOLEAN : SearchProbe(rpcOk)

SpecClient == InitClient /\ [][NextClient]_vars

(***************************************************************************)
(* Specification of the commands that derive a block window from the head: *)
(* young and old chains, window sizes below and above the head.            *)
(***************************************************************************)
WindowHeads == {0, 500, recentBlocks, defaultBlockInterval, 2 * blocksToScan}

WindowSizes == {0, recentBlocks, 2 * defaultBlockInterval}

WindowPaths == {"monitor", "findActiveContracts", "FetchLatestN"}

InitWindow ==
    /\ chain = <<>>
    /\ head = 0
    /\ gateway = [failFirst |-> 0, badStart |-> -1]
    /\ gwCalls = <<>>
    /\ calls = [h \in {1} |-> NoCall]
    /\ cache = <<>>
    /\ now = 0
    /\ stream = IdleStream
    /\ plan = IdlePlan
    /\ lookup = IdleLookup
    /\ AppIdleBut("window")
    /\ \E path \in WindowPaths, size \in WindowSizes, interval \in {0, 60} :
          window = [IdleWindow EXCEPT
                       !.pc = "start", !.path = path, !.size = size,
                       !.interval = interval]

NextWindow ==
    \/ \E headOk \in BOOLEAN, h \in WindowHeads : MonitorBegin(headOk, h)
    \/ \E txOk \in BOOLEAN, headOk \in BOOLEAN, h \in WindowHeads :
          MonitorIteration(txOk, headOk, h)
    \/ \E headOk \in BOOLEAN, h \in WindowHeads : ExecuteScan(headOk, h)
    \/ findActiveContracts
    \/ \E headOk \in BOOLEAN, h \in WindowHeads : FetchLatestN(headOk, h)

SpecWindow == InitWindow /\ [][NextWindow]_vars

(***************************************************************************)
(* Properties.                                                             *)
(***************************************************************************)
ReturnedOk(c) == c.pc = "returned" /\ c.err = <<>>

IsBlocksHarvest(c) == c.op = "blocks" /\ c.a <= c.b

\* The sequence holds every element of the set once and nothing else.
ExactlyOnce(txs, expected) ==
    /\ Len(txs) = Cardinality(expected)
    /\ SeqToSet(txs) = expected

\* C1: a successful FetchByBlocks(contract, a, b) returns every event the
\* gateway holds for [a, b] exactly once, for both fetchers, every chunking and
\* every completion order of the chunk goroutines.
C1_Complete ==
    \A h \in DOMAIN calls :
        ReturnedOk(calls[h]) /\ IsBlocksHarvest(calls[h])
        => /\ calls[h].hasResult
           /\ ExactlyOnce(calls[h].result,
                  SeqToSet(GetTransmissions(calls[h].a, calls[h].b)))

\* A successful harvest of three chunks, two of them with events, whose second
\* chunk result arrived before the first.
C1_Witness ==
    \E h \in DOMAIN calls :
        /\ ReturnedOk(calls[h]) /\ IsBlocksHarvest(calls[h])
        /\ Len(calls[h].chunks) >= 3
        /\ Len(calls[h].result) >= 2
        /\ \E k \in 1..(Len(calls[h].resultsChan) - 1) :
              calls[h].resultsChan[k].chunkIndex
                  > calls[h].resultsChan[k + 1].chunkIndex
        /\ \E i, j \in DOMAIN calls[h].result :
              calls[h].result[i].BlockNumber # calls[h].result[j].BlockNumber

InLogOrder(txs) ==
    \A i \in 1..(Len(txs) - 1) :
        \/ txs[i].BlockNumber < txs[i + 1].BlockNumber
        \/ /\ txs[i].BlockNumber = txs[i + 1].BlockNumber
           /\ txs[i].LogIndex < txs[i + 1].LogIndex

\* C2: the transmissions a harvest returns are ordered by (blockNumber,
\* logIndex), whatever order the chunk goroutines completed in.
C2_Ordered ==
    \A h \in DOMAIN calls :
        ReturnedOk(calls[h]) /\ IsBlocksHarvest(calls[h])
        => InLogOrder(calls[h].result)

\* C3: when a chunk query of a harvest ends in an error, the transmissions of
\* the chunks that succeeded are never handed to the caller: the fetch command
\* has written none of them.
C3_NoPartialResult ==
    (\E i \in DOMAIN stream.queryTasks : stream.queryTasks[i].err # <<>>)
    => stream.written = <<>>

\* C4: in one harvest the number of GetTransmissions calls in flight never
\* exceeds the fetcher's concurrency limit.
C4_InFlightBound ==
    \A h \in DOMAIN calls : Cardinality(InFlightTasks(calls[h])) <= Concurrency

\* The limit is reached while another chunk goroutine waits for a slot.
C4_Witness ==
    \E h \in DOMAIN calls :
        /\ Cardinality(InFlightTasks(calls[h])) = Concurrency
        /\ \E i \in DOMAIN calls[h].tasks : calls[h].tasks[i] = "spawned"

\* C5: over all harvests running at once in the process the number of gateway
\* calls in flight never exceeds MaxConcurrency.
C5_ProcessWideBound ==
    Cardinality(UNION {{<<h, i>> : i \in InFlightTasks(calls[h])} :
                          h \in DOMAIN calls}) <= Concurrency

\* C6: against a gateway that fails every chunk query on its first k
\* attempts, k < maxRetries, and answers afterwards, an uncancelled
\* FetchByBlocks returns what it returns against a gateway that never fails.
C6_FlakySameResult ==
    \A h \in DOMAIN calls :
        /\ calls[h].pc = "returned" /\ IsBlocksHarvest(calls[h])
        /\ ~calls[h].cancelled
        /\ gateway.badStart = -1 /\ gateway.failFirst < maxRetries
        => /\ ReturnedOk(calls[h])
           /\ calls[h].hasResult
           /\ ExactlyOnce(calls[h].result,
                  SeqToSet(GetTransmissions(calls[h].a, calls[h].b)))

ChunksCover(chunks, startBlock, endBlock) ==
    /\ chunks # <<>>
    /\ chunks[1].StartBlock = startBlock
    /\ chunks[Len(chunks)].EndBlock = endBlock
    /\ \A i \in DOMAIN chunks : chunks[i].StartBlock <= chunks[i].EndBlock
    /\ \A i \in 1..(Len(chunks) - 1) :
          chunks[i + 1].StartBlock = chunks[i].EndBlock + 1

IsRoundsFetch(c) == c.op = "rounds" /\ c.a <= c.b

\* C7: once the context of a call is cancelled after the call's first RPC, the
\* call issues no further gateway call (chunk task, retry attempt or locator
\* probe), and it returns the cancellation error and no result.
C7_NoRpcAfterCancel ==
    \A h \in DOMAIN calls :
        /\ ~calls[h].lateRpc
        /\ calls[h].pc = "returned" /\ calls[h].cancelledAfterRpc
           => /\ ~calls[h].hasResult
              /\ calls[h].err # <<>>
              /\ calls[h].err[Len(calls[h].err)] = "context canceled"

\* C8: every transmission in the result of a successful FetchByRounds(c, s, e)
\* has a round id between s and e.
C8_RoundsInRange ==
    \A h \in DOMAIN calls :
        ReturnedOk(calls[h]) /\ IsRoundsFetch(calls[h])
        => \A k \in DOMAIN calls[h].result :
              /\ calls[h].a <= RoundIdOf(calls[h].result[k])
              /\ RoundIdOf(calls[h].result[k]) <= calls[h].b

\* A successful FetchByRounds whose harvested block range held a transmission
\* above the asked rounds, which the result leaves out, next to one it keeps.
C8_Witness ==
    \E h \in DOMAIN calls :
        /\ ReturnedOk(calls[h]) /\ IsRoundsFetch(calls[h])
        /\ calls[h].result # <<>>
        /\ \E k \in DOMAIN chain :
              /\ InBlocks(chain[k], calls[h].lo, calls[h].hi)
              /\ RoundIdOf(chain[k]) > calls[h].b

\* Both rounds of the call have a transmission somewhere in [0, head].
RoundsOnChain(c) ==
    /\ \E k \in DOMAIN chain : RoundIdOf(chain[k]) = c.a
    /\ \E k \in DOMAIN chain : RoundIdOf(chain[k]) = c.b

WantedRounds(c) ==
    {chain[k] : k \in {j \in DOMAIN chain :
                          InRoundRange(RoundIdOf(chain[j]), c.a, c.b)}}

\* C9: with round ids that never decrease along the chain and both asked rounds
\* on the chain, FetchByRounds succeeds on an answering gateway and an
\* uncancelled context, and its result holds every transmission of the asked
\* rounds exactly once.
C9_RoundsComplete ==
    \A h \in DOMAIN calls :
        /\ calls[h].pc = "returned" /\ IsRoundsFetch(calls[h])
        /\ IsRoundMonotone(chain) /\ RoundsOnChain(calls[h])
        /\ gateway.badStart < 0 /\ gateway.failFirst = 0
        /\ ~calls[h].cancelled
        => /\ calls[h].err = <<>>
           /\ ExactlyOnce(calls[h].result, WantedRounds(calls[h]))

\* C10: for startBlock <= endBlock and a positive concurrency both planners
\* emit chunks that start at startBlock, end at endBlock, are non-empty and
\* each begin one block after the previous one ends.
C10_ChunksContiguous ==
    plan.stage \in {"optimized", "naive"}
    => ChunksCover(plan.chunks, plan.startBlock, plan.endBlock)

\* A plan of several chunks whose last chunk is shorter than the others.
C10_Witness ==
    /\ plan.stage \in {"optimized", "naive"}
    /\ Len(plan.chunks) >= 3
    /\ plan.chunks[Len(plan.chunks)].EndBlock - plan.chunks[Len(plan.chunks)].StartBlock
          < plan.chunks[1].EndBlock - plan.chunks[1].StartBlock

PlanTotalBlocks == plan.endBlock - plan.startBlock + 1

\* C11: when the range needs more chunks of the default size than the
\* concurrency limit, the optimized planner emits at most `concurrency` chunks;
\* otherwise it emits ceil(total / 5000) chunks.
C11_ChunkCount ==
    plan.stage = "optimized"
    => IF CeilDiv(PlanTotalBlocks, defaultBlockInterval) > plan.concurrency
       THEN Len(plan.chunks) <= plan.concurrency
       ELSE Len(plan.chunks) = CeilDiv(PlanTotalBlocks, defaultBlockInterval)

ChunkSpan(chunk) == chunk.EndBlock - chunk.StartBlock + 1

C13_CacheTtl ==
    lookup.done
    => lookup.block = IF lookup.present /\ lookup.age < cacheExpiration
                      THEN lookup.stored ELSE 0

\* The findBlockForRound calls made so far, oldest first: the finished ones of
\* every FetchByRounds and the one in progress.
LocatorCalls ==
    Concat([h \in 1..Len(calls) |->
        calls[h].located
        \o (IF calls[h].pc = "locate" /\ calls[h].loc.issued
            THEN <<[Located(calls[h].loc, FALSE, 0) EXCEPT !.at = -1]>>
            ELSE <<>>)])

\* C14: after a findBlockForRound call for a round has succeeded, a later call
\* for the same round that begins within cacheExpiration of it issues no
\* gateway call and returns the same block.
C14_SecondCallCached ==
    \A i, j \in DOMAIN LocatorCalls :
        /\ i < j
        /\ LocatorCalls[i].targetRound = LocatorCalls[j].targetRound
        /\ LocatorCalls[i].ok
        /\ LocatorCalls[j].began - LocatorCalls[i].at < cacheExpiration
        => /\ ~LocatorCalls[j].issued
           /\ LocatorCalls[j].ok
           /\ LocatorCalls[j].block = LocatorCalls[i].block

\* C15: a FetchByRounds call with startRound > endRound and a FetchByBlocks
\* call with startBlock > endBlock make no gateway call, and return the
\* invalid-input error and no result.
C15_InvalidRangeRejected ==
    \A h \in DOMAIN calls :
        calls[h].a > calls[h].b
        => /\ ~calls[h].rpcIssued
           /\ gwCalls = <<>>
           /\ calls[h].pc \in {"start", "returned"}
           /\ calls[h].pc = "returned"
              => calls[h].err = ErrInvalidInput /\ ~calls[h].hasResult

C15_Witness ==
    \E h \in DOMAIN calls :
        /\ calls[h].a > calls[h].b
        /\ calls[h].op = "rounds"
        /\ calls[h].variant = "optimized"
        /\ calls[h].pc = "returned"
        /\ calls[h].err = ErrInvalidInput

\* A request that validateParams must refuse according to its three rules.
BadRequest ==
    \/ usecase.params.ContractAddress = ZeroAddress
    \/ usecase.params.StartRound > usecase.params.EndRound
    \/ usecase.params.EndRound - usecase.params.StartRound > maxRoundRange

\* C16: Execute answers a request with a zero contract address, with
\* startRound > endRound or with endRound - startRound > 10000 by a
\* ValidationError and no result, and calls neither the fetcher nor the
\* repository; any other request passes validation and reaches the fetcher.
C16_Validation ==
    usecase.pc \notin {"off", "start"}
    => IF BadRequest
       THEN /\ usecase.pc = "returned"
            /\ usecase.err # NoError
            /\ usecase.err.kind = "ValidationError"
            /\ usecase.result = NilResult
            /\ usecase.fetcherCalls = <<>>
            /\ usecase.repositoryCalls = <<>>
       ELSE /\ usecase.fetcherCalls = <<usecase.params>>
            /\ usecase.err \in {NoError, ErrTransport}

C16_Witness ==
    /\ usecase.pc = "returned"
    /\ usecase.params.ContractAddress # ZeroAddress
    /\ usecase.params.StartRound <= usecase.params.EndRound
    /\ usecase.params.EndRound - usecase.params.StartRound = maxRoundRange + 1
    /\ usecase.err # NoError

\* C17: once the fetcher has been called, Execute returns what the fetcher
\* returned: its result, unchanged, and no error when the fetch succeeded,
\* whether or not a save failed; no result and the fetcher's error when it
\* failed, and then the repository is never called.
C17_OutcomeFromFetcher ==
    /\ usecase.pc = "returned" /\ usecase.fetcherCalls # <<>>
       => IF usecase.fetched.ok
          THEN usecase.result = usecase.fetched.result /\ usecase.err = NoError
          ELSE /\ usecase.result = NilResult
               /\ usecase.err = usecase.fetched.err
               /\ usecase.err # NoError
    /\ usecase.repositoryCalls # <<>> => usecase.fetched.ok

C17_Witness ==
    /\ usecase.pc = "returned"
    /\ usecase.fetched.ok
    /\ usecase.warned
    /\ Len(usecase.repositoryCalls) = 2
    /\ usecase.result = usecase.fetched.result

\* The windows the transmission dispatch loop of a streaming fetch goes through.
StreamWindowCount ==
    CeilDiv(stream.endBlock - stream.startBlock + 1, QUERY_WINDOW)

C19_IndexMatchesRoster ==
    \A n \in DOMAIN service.transmissions :
        LET tx == service.transmissions[n]
            roster == TransmittersAt(service.configLog, tx.BlockNumber)
        IN  tx.TransmitterIndex # unknownObserver
            => /\ tx.TransmitterIndex + 1 \in DOMAIN roster
               /\ roster[tx.TransmitterIndex + 1] = tx.TransmitterAddress

\* C20: whatever whole number of hours the stale threshold is, an active job
\* whose transmitter's latest fetched transmission is younger than the
\* threshold is reported found, and one whose latest transmission is older
\* than the threshold is reported stale.
C20_StaleThresholdInHours ==
    \A n \in DOMAIN watch.statuses :
        LET job == watch.jobs[n]
        IN  /\ job.Active /\ job.latestRound.ok /\ job.fetch.ok
            /\ OwnTransmissions(job) # <<>>
            => LET age == watch.now - LastTransmissionTime(job)
               IN  /\ age < watch.params.StaleThreshold
                      => watch.statuses[n].Status = JobStatusFound
                   /\ age > watch.params.StaleThreshold
                      => watch.statuses[n].Status = JobStatusStale

\* C21: a successful FetchByBlocks with a non-empty result, on a log whose
\* round ids never decrease, returns the least round id of its transmissions
\* as StartRound and the greatest as EndRound, whatever order the chunks
\* completed in.
C21_RoundRangeIsMinMax ==
    \A h \in DOMAIN calls :
        /\ ReturnedOk(calls[h]) /\ IsBlocksHarvest(calls[h])
        /\ calls[h].result # <<>>
        /\ IsRoundMonotone(chain)
        => /\ calls[h].startRound = MinRound(calls[h].result)
           /\ calls[h].endRound = MaxRound(calls[h].result)

Distance(x, y) == IF x >= y THEN x - y ELSE y - x

\* C22: on a chain whose block timestamps strictly increase,
\* GetBlockByTimestamp asks only for blocks in [0, head], and the block it
\* returns is in [0, head] and no block of [0, head] has a timestamp closer
\* to the target (here for targets between the first and the last block's
\* timestamp, and a node that answers).
C22_NearestBlock ==
    /\ client.pc \notin {"off", "start"}
    /\ client.targetTimestamp >= client.blockTimes[1]
    /\ client.targetTimestamp <= client.blockTimes[ClientHead + 1]
    /\ client.err \notin {ErrCurrentBlock}
       \cup {ErrSearch(n) : n \in 0..ClientHead}
    => /\ \A k \in DOMAIN client.probes : client.probes[k] \in 0..ClientHead
       /\ client.pc = "returned"
          => /\ client.err = <<>>
             /\ client.result \in 0..ClientHead
             /\ \A n \in 0..ClientHead :
                   Distance(client.blockTimes[client.result + 1],
                            client.targetTimestamp)
                   <= Distance(client.blockTimes[n + 1], client.targetTimestamp)

\* C23: the retry loop of the optimized fetcher never makes more than
\* maxRetries attempts; an uncancelled harvest all of whose attempts failed
\* has made exactly maxRetries of them and returns the error that wraps the
\* last failure, with no result; and a harvest that succeeded made its
\* successful attempt last.
C23_ExactlyMaxRetries ==
    \A h \in DOMAIN calls :
        calls[h].variant = "optimized" /\ IsBlocksHarvest(calls[h])
        => /\ calls[h].attempts <= maxRetries
           /\ ReturnedOk(calls[h]) => calls[h].attempts = calls[h].attempt + 1
           /\ (/\ calls[h].pc = "returned"
               /\ ~calls[h].cancelled
               /\ calls[h].attempts = calls[h].attempt)
              => /\ calls[h].attempts = maxRetries
                 /\ calls[h].err = ErrExhausted(calls[h].lastErr)
                 /\ calls[h].lastErr # <<>>
                 /\ ~calls[h].hasResult

C23_Witness ==
    \E h \in DOMAIN calls :
        /\ calls[h].variant = "optimized" /\ IsBlocksHarvest(calls[h])
        /\ calls[h].pc = "returned" /\ ~calls[h].cancelled
        /\ calls[h].attempts = maxRetries
        /\ calls[h].err = ErrExhausted(calls[h].lastErr)
        /\ Len(calls[h].chunks) > 1

\* C24: in the streaming fetch a transmission task exists only when a
\* ConfigSet task has been started for every window and all of them have
\* ended, and what a task has attributed is what the map as it is now gives:
\* the map did not change under the attribution.
C24_SweepDrainedBeforeAttribution ==
    stream.queryTasks # <<>>
    => /\ Len(stream.cfgTasks) = StreamWindowCount
       /\ \A i \in DOMAIN stream.cfgTasks : stream.cfgTasks[i].state = "done"
       /\ \A i \in DOMAIN stream.queryTasks :
             LET t == stream.queryTasks[i]
             IN  t.state \in {"send", "done"} /\ t.err = <<>>
                 => t.output = CaptureTransmissions(t.start, t.end)

C24_Witness ==
    /\ Len(stream.cfgTasks) > 1
    /\ \E i \in DOMAIN stream.queryTasks :
          /\ stream.queryTasks[i].state = "done"
          /\ \E k \in DOMAIN stream.queryTasks[i].output :
                stream.queryTasks[i].output[k].Transmitters # <<>>
    /\ \E ev \in SeqToSet(stream.configLog) :
          /\ ev.BlockNumber >= QUERY_WINDOW
          /\ ev.ConfigDigest \in DOMAIN stream.transmittersMap

\* C25: once fetchTransmissionsInRange has returned, to its caller's return
\* or to the retry loop, every chunk goroutine it started has ended and none
\* holds a slot of the semaphore; and the two channels never hold more than
\* one message per chunk, so that no send on them ever blocks.
C25_TasksEndBeforeReturn ==
    \A h \in DOMAIN calls :
        /\ Len(calls[h].resultsChan) + Len(calls[h].errorsChan)
              <= Len(calls[h].chunks)
        /\ calls[h].pc \in {"returned", "backoff"}
           => /\ \A i \in DOMAIN calls[h].tasks : calls[h].tasks[i] = "term"
              /\ SemHolders(calls[h]) = {}

C25_Witness ==
    \E h \in DOMAIN calls :
        /\ calls[h].pc = "returned"
        /\ calls[h].cancelled
        /\ Len(calls[h].chunks) > Concurrency
        /\ calls[h].resultsChan # <<>>
        /\ calls[h].errorsChan # <<>>

\* C26: the log search of the round locator terminates: a FetchByRounds call
\* that is locating a block eventually leaves the locator, with a block or
\* with an error.
C26_LocatorTerminates ==
    \A h \in {1} : (calls[h].pc = "locate") ~> (calls[h].pc # "locate")

\* C27: the watch decider gives each job exactly one verdict: NoActive for an
\* inactive job, and then neither the latest round is read nor rounds are
\* fetched for it; otherwise Error if reading the latest round or fetching
\* the rounds fails; otherwise Missing if no fetched transmission carries the
\* job's transmitter address; otherwise Stale if the latest of them is before
\* the cutoff; otherwise Found.
WatchVerdict(job) ==
    LET own == {i \in DOMAIN job.fetch.Transmissions :
                   job.fetch.Transmissions[i].TransmitterAddress
                       = job.TransmitterAddress}
    IN  IF ~job.Active THEN "No Active"
        ELSE IF ~job.latestRound.ok \/ ~job.fetch.ok THEN "Error"
        ELSE IF own = {} THEN "Missing"
        ELSE IF \A i \in own :
                    job.fetch.Transmissions[i].BlockTimestamp < watch.cutoffTime
        THEN "Stale"
        ELSE "Found"

WatchChecked == 1..watch.k

C27_OneVerdictByPrecedence ==
    watch.pc \in {"jobs", "returned"} /\ watch.err = <<>> =>
        /\ Len(watch.statuses) = watch.k
        /\ \A i \in WatchChecked :
               watch.statuses[i].Status = WatchVerdict(watch.jobs[i])
        /\ \A i \in WatchChecked :
               ~watch.jobs[i].Active =>
                   \A n \in DOMAIN watch.latestRoundCalls :
                       watch.latestRoundCalls[n] # i
        /\ Len(watch.fetcherCalls)
               = Cardinality({i \in WatchChecked :
                                 /\ watch.jobs[i].Active
                                 /\ watch.jobs[i].latestRound.ok})
        /\ LET s == watch.summary
           IN  s.FoundJobs + s.StaleJobs + s.MissingJobs + s.NoActiveJobs
                   + s.ErrorJobs = watch.k

\* An inactive job whose contract cannot be read and a job whose transmitter
\* is stale have both been given their verdicts.
C27_Witness ==
    /\ watch.pc = "returned" /\ watch.hasResult /\ watch.k = 2
    /\ ~watch.jobs[1].Active /\ watch.statuses[1].Status = JobStatusNoActive
    /\ watch.statuses[2].Status = JobStatusStale
    /\ watch.latestRoundCalls = <<2>>

\* C28: the streaming fetch cannot deadlock: once Fetch dispatches its
\* transmission tasks it returns and the result channel is closed, the fetch
\* command receiving from the unbuffered channel only after Fetch returned.
C28_FetchReturnsAndCloses ==
    (stream.pc = "queryDispatch") ~> (stream.pc = "returned" /\ stream.closed)

\* C29: in the ConfigSet sweep of the streaming fetch every write to the
\* shared map from config digests to rosters excludes every other access to
\* the map: no two tasks are in their writing loop at the same time.
C29_MapWritesExclusive == Cardinality(CfgWriting) <= 1

\* C30: every block window the watch and monitor paths derive from the chain
\* head satisfies 0 <= start <= end = head, in every iteration of the monitor
\* loop, in findActiveContracts and in FetchLatestN, also when the head is
\* lower than the requested window size.
C30_WindowsWithinChain ==
    \A n \in DOMAIN window.derived :
        LET d == window.derived[n]
        IN  0 <= d.start /\ d.start <= d.end /\ d.end = d.head

====
